---------------------------- MODULE Spec2Model ----------------------------
(***************************************************************************)
(* TLA+ model of the tierone::tar streaming archive reader.                *)
(*                                                                         *)
(* The byte source is a memory_mapped_stream or a file_stream over an      *)
(* immutable archive.  The archive is kept as a sequence of 512-byte       *)
(* records; every byte of a record is identified by its absolute position  *)
(* in the stream, so a slice returned by read_data is described by the     *)
(* stream positions it was copied from.  Sizes are far below 2^64, so      *)
(* size_t arithmetic does not wrap in any reachable state.                 *)
(***************************************************************************)
EXTENDS Integers, Naturals, Sequences, FiniteSets, TLC

\* ------------------------------------------------------------------------
\* Bounds of the model
\* ------------------------------------------------------------------------
MaxItems == 3            \* archive = at most MaxItems members / raw records

\* ------------------------------------------------------------------------
\* Program constants
\* ------------------------------------------------------------------------
BLOCK_SIZE == 512
\* std::numeric_limits<size_t>::max(), the default length of read_data,
\* narrowed to the largest integer the checker handles; every size and
\* position of the model is far below it
SIZE_MAX == 2147483647

Min(a, b) == IF a <= b THEN a ELSE b

\* ------------------------------------------------------------------------
\* Records of the archive
\*   kind  "zero" : all-zero record
\*         "data" : payload record; its first `len` bytes are non-zero,
\*                  the rest is zero padding
\*         "hdr"  : a ustar header record
\*   A header carries the characters of its magic, version and checksum
\*   fields ("NUL" is the zero byte) and `octets`, the sum of its bytes
\*   outside the checksum field taken as unsigned octets.
\*   A payload record never contains the text "ustar" at the magic offset
\*   of any 512-byte window, and does not start with a decimal digit unless
\*   it is a PAX payload.
\* ------------------------------------------------------------------------
NoPax == <<>>

ZeroBlock ==
    [kind |-> "zero", len |-> 0, typeflag |-> "", size |-> 0, name |-> "",
     linkname |-> "", sp |-> <<>>, realsize |-> -1, text |-> "", pax |-> NoPax,
     nums |-> <<>>, ctype |-> "none", isextended |-> FALSE,
     magic |-> <<>>, version |-> <<>>, checksum |-> <<>>, octets |-> 0]

DataBlock(n) ==
    [ZeroBlock EXCEPT !.kind = "data", !.len = n, !.ctype = "bytes"]

NameBlock(str, n) ==
    [ZeroBlock EXCEPT !.kind = "data", !.len = n, !.ctype = "text", !.text = str]

PaxBlock(map, n) ==
    [ZeroBlock EXCEPT !.kind = "data", !.len = n, !.ctype = "pax", !.pax = map]

\* first payload record of a sparse-1.0 member: the decimal numbers of the
\* map, one per line; -1 stands for a digit string that does not fit in 64
\* bits
MapBlock(numbers, n) ==
    [ZeroBlock EXCEPT !.kind = "data", !.len = n, !.ctype = "map", !.nums = numbers]

\* the fields of a POSIX header: magic "ustar\0", version "00"; the octets
\* outside the checksum field sum to 5000 and the checksum field holds
\* 5000 + 8 * 32 = 5256 in octal, followed by NUL and a space
MagicUstar == <<"u", "s", "t", "a", "r", "NUL">>
MagicGnu == <<"u", "s", "t", "a", "r", " ">>
Version00 == <<"0", "0">>
VersionGnu == <<" ", "NUL">>
VersionEmpty == <<"NUL", "NUL">>
Version99 == <<"9", "9">>
HeaderOctets == 5000
Checksum5256 == <<"0", "1", "2", "2", "1", "0", "NUL", " ">>

\* a header: bytes 0..344 are in use without the sparse overlay, 0..492 with it
Header(flag, sz, nm) ==
    [ZeroBlock EXCEPT !.kind = "hdr", !.len = 344, !.typeflag = flag,
                      !.size = sz, !.name = nm, !.ctype = "hdr",
                      !.magic = MagicUstar, !.version = Version00,
                      !.checksum = Checksum5256, !.octets = HeaderOctets]

SparseHeader(flag, sz, nm, segs, rs) ==
    [Header(flag, sz, nm) EXCEPT !.len = 492, !.sp = segs, !.realsize = rs]

Seg(o, s) == [offset |-> o, size |-> s]

\* number of records a payload of n bytes occupies
BlocksFor(n) == (n + BLOCK_SIZE - 1) \div BLOCK_SIZE

RECURSIVE PayloadBlocks(_)
PayloadBlocks(n) ==
    IF n = 0 THEN <<>>
    ELSE IF n <= BLOCK_SIZE THEN <<DataBlock(n)>>
    ELSE <<DataBlock(BLOCK_SIZE)>> \o PayloadBlocks(n - BLOCK_SIZE)

Member(h) == <<h>> \o PayloadBlocks(h.size)

ItemZero == <<ZeroBlock>>
ItemGarbage == <<DataBlock(BLOCK_SIZE)>>
ItemFile600 == Member(Header("0", 600, "b"))
ItemSparse2 ==
    Member(SparseHeader("S", 150, "s", <<Seg(0, 100), Seg(1000, 50)>>, 1100))
ItemLongName == <<Header("L", 4, "././@LongLink"), NameBlock("long", 3)>>

CoreItems ==
    {ItemZero, ItemGarbage, ItemFile600, ItemSparse2, ItemLongName}

\* Members and extension records of archives that carry GNU and PAX
\* extensions.  A PAX payload is the map of its keys; the value of a numeric
\* key is its character sequence, the value of an ACL key the sequence of its
\* entries, each the sequence of its colon-separated parts.
Chars12abc == <<"1", "2", "a", "b", "c">>
Chars1 == <<"1">>
Chars0 == <<"0">>
CharsZz == <<"z", "z">>
CharsRwx == <<"r", "w", "x">>
AclMalformed == <<<<"user", <<>>, CharsRwx>>, <<"bogus">>>>

PaxMember(flag, map, n) == <<Header(flag, n, "PaxHeader"), PaxBlock(map, n)>>

\* a 30-byte file whose content is a decimal number too large for 64 bits
ItemFile30 == <<Header("0", 30, "a"), MapBlock(<<-1>>, 30)>>
ItemSymlink == <<[Header("2", 0, "l") EXCEPT !.linkname = "t"]>>
ItemLongNul == <<Header("L", 4, "././@LongLink"), ZeroBlock>>
ItemLongLink == <<Header("K", 6, "././@LongLink"), NameBlock("target", 6)>>
ItemVolume == <<Header("V", 0, "vol")>>
ItemMultiVol == <<Header("M", 600, "m")>> \o PayloadBlocks(600)
ItemPaxPath ==
    PaxMember("x", ("path" :> "p") @@ ("SCHILY.acl.access" :> AclMalformed), 40)
ItemPaxSize == PaxMember("x", "size" :> Chars12abc, 14)
ItemPaxSparse ==
    PaxMember("x", ("GNU.sparse.major" :> Chars1) @@ ("GNU.sparse.minor" :> Chars0)
                      @@ ("GNU.sparse.realsize" :> CharsZz), 66)
ItemGlobal == PaxMember("g", "path" :> "q", 10)

\* an extended-sparse record: up to 21 overlay entries and, at byte 504, the
\* flag that another such record follows
ExtendedSparseBlock(segs, more) ==
    [ZeroBlock EXCEPT !.kind = "data", !.ctype = "sparse",
                      !.len = IF more THEN 505 ELSE 24 * Len(segs),
                      !.sp = segs, !.isextended = more]

\* old-format sparse members: the overlay lists the segments out of order;
\* a segment ends after the real size; the overlay is continued in an
\* extended-sparse record; the overlay is empty
ItemSparseUnsorted ==
    Member(SparseHeader("S", 150, "u", <<Seg(1000, 50), Seg(0, 100)>>, 1100))
ItemSparseBeyond ==
    Member(SparseHeader("S", 100, "y", <<Seg(0, 100)>>, 50))
ItemSparseExtended ==
    <<[SparseHeader("S", 150, "x", <<Seg(0, 100)>>, 1100)
          EXCEPT !.isextended = TRUE],
      ExtendedSparseBlock(<<Seg(1000, 50)>>, FALSE)>> \o PayloadBlocks(150)
ItemSparseEmpty == <<SparseHeader("S", 0, "n", <<>>, 0)>>
\* a POSIX regular file whose prefix field holds a directory name with
\* digits: read as the overlay, bytes 384..407 give the entry {8, 5}, and the
\* realsize field holds no digit
ItemPrefixed ==
    Member([Header("0", 150, "f") EXCEPT !.len = 420, !.sp = <<Seg(8, 5)>>])

SparseItems ==
    {ItemZero, ItemFile600, ItemSparse2, ItemSparseUnsorted, ItemSparseBeyond,
     ItemSparseExtended, ItemSparseEmpty, ItemPrefixed}

\* headers whose magic, version or checksum differ from the POSIX ones
ItemGnuFile ==
    <<[Header("0", 0, "g") EXCEPT !.magic = MagicGnu, !.version = VersionGnu]>>
ItemNoVersion == <<[Header("0", 0, "e") EXCEPT !.version = VersionEmpty]>>
ItemVersion99 == <<[Header("0", 0, "n") EXCEPT !.version = Version99]>>
\* the stored checksum is 5000: the sum with the field taken as zero bytes
ItemSumZeroed ==
    <<[Header("0", 0, "z") EXCEPT
         !.checksum = <<"0", "1", "1", "6", "1", "0", "NUL", " ">>]>>
\* the checksum field is not octal
ItemSumNotOctal ==
    <<[Header("0", 0, "o") EXCEPT
         !.checksum = <<"0", "1", "2", "2", "1", "9", "NUL", " ">>]>>
\* PAX records with an access ACL of one entry `user::<perm>`
AclMember(perm) ==
    PaxMember("x", "SCHILY.acl.access" :> <<<<"user", <<>>, perm>>>>, 40)
ItemAclRwx == AclMember(CharsRwx)
ItemAclReadOnly == AclMember(<<"r", "-", "-">>)
ItemAclShort == AclMember(<<"r", "w">>)
ItemAclSwapped == AclMember(<<"w", "r", "x">>)

AclItems == {ItemFile30, ItemAclRwx, ItemAclReadOnly, ItemAclShort, ItemAclSwapped}

\* members in the PAX sparse formats.  Format 1.0: the PAX record marks the
\* version and gives the real size and the name; the payload of the member
\* starts with the map "2\n0\n100\n200\n50\n" (15 bytes), followed in the same
\* record by the 150 stored bytes of the two segments.  Format 0.1: the PAX
\* record carries the map "0,100,200,50" and the real size; the payload of
\* the member is the 150 stored bytes.
Chars300 == <<"3", "0", "0">>
MapText == <<Chars0, <<"1", "0", "0">>, <<"2", "0", "0">>, <<"5", "0">>>>
ItemPaxSparse10 ==
    PaxMember("x", ("GNU.sparse.major" :> Chars1) @@ ("GNU.sparse.minor" :> Chars0)
                      @@ ("GNU.sparse.realsize" :> Chars300)
                      @@ ("GNU.sparse.name" :> "sn"), 90)
ItemMapFile == <<Header("0", 165, "m"), MapBlock(<<2, 0, 100, 200, 50>>, 165)>>
ItemPaxSparse01 ==
    PaxMember("x", ("GNU.sparse.map" :> MapText)
                      @@ ("GNU.sparse.realsize" :> Chars300), 60)
ItemFile150 == Member(Header("0", 150, "d"))

PaxSparseItems ==
    {ItemZero, ItemFile30, ItemPaxSparse10, ItemMapFile, ItemPaxSparse01,
     ItemFile150}

\* archives with PAX records, and GNU long names and links
ExtItems ==
    {ItemFile30, ItemSymlink, ItemLongName, ItemLongLink,
     ItemPaxPath, ItemPaxSize, ItemPaxSparse, ItemGlobal}

\* archives with GNU records, and a PAX path
GnuItems ==
    {ItemFile30, ItemSymlink, ItemLongName, ItemLongNul, ItemLongLink,
     ItemVolume, ItemMultiVol, ItemPaxPath}

\* archives whose headers differ in magic, version and checksum
HeaderItems ==
    {ItemZero, ItemFile600, ItemLongName, ItemGnuFile, ItemNoVersion,
     ItemVersion99, ItemSumZeroed, ItemSumNotOctal}

RECURSIVE ArchivesOf(_, _)
ArchivesOf(items, n) ==
    IF n = 0 THEN {<<>>}
    ELSE LET shorter == ArchivesOf(items, n - 1)
         IN  shorter \cup {a \o i : a \in shorter, i \in items}

\* bytes cut off the end of the archive (a truncated last record)
Cuts == {0, 500}
StreamKinds == {"memory_mapped_stream", "file_stream"}


\* ------------------------------------------------------------------------
\* State
\* ------------------------------------------------------------------------
VARIABLES
    data_,        \* the archive: sequence of records (memory_mapped_stream::data_)
    data_size,    \* number of bytes of the archive that exist (data_.size())
    stream_kind,  \* which input_stream implementation the reader owns
    reader,       \* archive_reader members, with the stream's position_
    iter,         \* the archive_reader::iterator held by the caller
    yielded,      \* entries handed to the caller so far, in order
    last,         \* outcome of the most recent call
    rejected,     \* positions of the non-zero records met after a lone zero record
    peer,         \* a second archive_reader, over a stream of its own, run on
                  \* the same thread
    held,         \* the data slice each of the two callers got from its last
                  \* read_data and still relies on
    arg,          \* the argument of a library function that is called directly
    ret           \* what that call returned

vars == <<data_, data_size, stream_kind, reader, iter, yielded, last, rejected,
          peer, held, arg, ret>>

\* no library function is called directly, or the call has not returned
NoDirectCall == <<>>

NoSparse == [present |-> FALSE, real_size |-> 0, segments |-> <<>>]
SparseInfo(rs, segs) == [present |-> TRUE, real_size |-> rs, segments |-> segs]

NoEntry ==
    [present |-> FALSE, id |-> 0, path |-> "", type |-> "", size |-> 0,
     link_target |-> "", sparse_info |-> NoSparse,
     access_acl |-> <<>>, default_acl |-> <<>>,
     group_start |-> 0, header_pos |-> 0, payload_start |-> 0, stored_end |-> 0]

\* ------------------------------------------------------------------------
\* input_stream
\* ------------------------------------------------------------------------
\* read(): bytes delivered and the new position
StreamRead(pos, n) ==
    LET available == IF pos >= data_size THEN 0 ELSE data_size - pos
        to_read == Min(n, available)
    IN  [count |-> to_read, from |-> pos, position_ |-> pos + to_read]

\* skip(): memory_mapped_stream refuses to move past the end, file_stream
\* (fseek SEEK_CUR) moves anywhere
StreamSkip(pos, bytes) ==
    IF stream_kind = "memory_mapped_stream" /\ pos + bytes > data_size
    THEN [ok |-> FALSE, code |-> "io_error", position_ |-> pos]
    ELSE [ok |-> TRUE, code |-> "", position_ |-> pos + bytes]

\* at_end(): memory_mapped_stream compares with the size of the mapping,
\* file_stream with file_size_, the size found by open(); for a file that
\* lost its last record after it was opened file_size_ is one record more
\* than the bytes that exist
ReportedSize ==
    IF stream_kind = "file_stream_stale" THEN data_size + BLOCK_SIZE ELSE data_size

StreamAtEnd(pos) == pos >= ReportedSize

\* the record stored at index i (0-based); beyond the archive: nothing
RecordAt(i) == IF i + 1 <= Len(data_) THEN data_[i + 1] ELSE ZeroBlock

\* The 512 bytes at stream position p, classified.  An aligned window is a
\* record of the archive.  A window that straddles two records is all-zero
\* exactly when the tail of the first and the head of the second are zero;
\* otherwise it is a non-zero record without a ustar magic.
WindowAt(p) ==
    LET i == p \div BLOCK_SIZE
        d == p % BLOCK_SIZE
        A == RecordAt(i)
        B == RecordAt(i + 1)
    IN  IF d = 0 THEN A
        ELSE IF A.len > d \/ B.len > 0 THEN DataBlock(BLOCK_SIZE)
        ELSE ZeroBlock

\* ------------------------------------------------------------------------
\* detail:: helpers
\* ------------------------------------------------------------------------
is_zero_block(block) == block.kind = "zero"

RegularTypes == {"0", ""}
KnownTypes == {"0", "", "1", "2", "3", "4", "5", "6", "7",
               "x", "g", "L", "K", "S", "V", "M"}

\* sparse::parse_old_sparse_header: the overlay entries up to the first one
\* whose size is zero; the real size from the overlay field, else from the
\* last segment
RECURSIVE OverlaySegments(_)
OverlaySegments(sp) ==
    IF sp = <<>> \/ Head(sp).size = 0 THEN <<>>
    ELSE <<Head(sp)>> \o OverlaySegments(Tail(sp))

parse_old_sparse_header(h) ==
    LET segs == OverlaySegments(h.sp)
    IN  [real_size |-> IF h.realsize >= 0 THEN h.realsize
                       ELSE IF segs # <<>>
                            THEN segs[Len(segs)].offset + segs[Len(segs)].size
                            ELSE 0,
         segments |-> segs]

\* detail::extract_string: the characters before the first zero byte
RECURSIVE extract_string(_)
extract_string(field) ==
    IF field = <<>> \/ Head(field) = "NUL" THEN <<>>
    ELSE <<Head(field)>> \o extract_string(Tail(field))

\* gnu::is_gnu_tar_magic
is_gnu_tar_magic(magic) ==
    magic \in {<<"u", "s", "t", "a", "r", " ">>, <<"u", "s", "t", "a", "r">>}

OctalDigits == {"0", "1", "2", "3", "4", "5", "6", "7"}
OctalValue(c) == CHOOSE v \in 0..7 : ToString(v) = c

\* uint64_t result, kept in three limbs: lo holds bits 0..29, mid bits
\* 30..59 and hi bits 60..63
Limb == 2^30
LimbTop == 2^27
U64(n) == [hi |-> 0, mid |-> 0, lo |-> n]

\* (result << 3) | digit, in 64 bits
ShiftInDigit(result, digit) ==
    [lo |-> (result.lo % LimbTop) * 8 + digit,
     mid |-> (result.mid % LimbTop) * 8 + result.lo \div LimbTop,
     hi |-> (result.hi % 2) * 8 + result.mid \div LimbTop]

\* result > (UINT64_MAX >> 3): a bit above bit 60 is set
AboveShiftedMax(result) == result.hi >= 2

\* detail::parse_octal: leading NULs and spaces are skipped, digits are
\* accumulated up to the next NUL or space
RECURSIVE parse_octal_from(_, _, _)
parse_octal_from(field, result, found_digit) ==
    IF field = <<>> THEN [ok |-> TRUE, value |-> result, code |-> ""]
    ELSE IF Head(field) \in {"NUL", " "}
    THEN IF found_digit
         THEN [ok |-> TRUE, value |-> result, code |-> ""]
         ELSE parse_octal_from(Tail(field), result, found_digit)
    ELSE IF Head(field) \notin OctalDigits
    THEN [ok |-> FALSE, value |-> U64(0), code |-> "invalid_header"]
    ELSE IF AboveShiftedMax(result)
    THEN [ok |-> FALSE, value |-> U64(0), code |-> "invalid_header"]
    ELSE parse_octal_from(Tail(field), ShiftInDigit(result, OctalValue(Head(field))),
                          TRUE)

parse_octal(field) == parse_octal_from(field, U64(0), FALSE)

\* a header sum that counts the checksum field as eight zero bytes
calculate_checksum_zeroed(block) == block.octets

\* detail::calculate_checksum: the sum of the 512 octets of the record with
\* the checksum field replaced by eight spaces
calculate_checksum(block) == block.octets + 8 * 32

\* detail::parse_header: the versions it supports
version_supported(version) == version = <<"0", "0">> \/ version = <<" ">>

\* detail::parse_header on a non-zero record
parse_header(block) ==
    IF \/ block.kind # "hdr"
       \/ /\ extract_string(block.magic) # <<"u", "s", "t", "a", "r">>
          /\ ~is_gnu_tar_magic(extract_string(block.magic))
    THEN [ok |-> FALSE, code |-> "invalid_header", meta |-> NoEntry]
    ELSE IF ~version_supported(extract_string(block.version))
    THEN [ok |-> FALSE, code |-> "invalid_header", meta |-> NoEntry]
    ELSE IF ~parse_octal(block.checksum).ok
    THEN [ok |-> FALSE, code |-> parse_octal(block.checksum).code, meta |-> NoEntry]
    ELSE IF U64(calculate_checksum(block)) # parse_octal(block.checksum).value
    THEN [ok |-> FALSE, code |-> "corrupt_archive", meta |-> NoEntry]
    ELSE
    LET sparse_result == parse_old_sparse_header(block)
        is_gnu == is_gnu_tar_magic(extract_string(block.magic))
        has_sparse == /\ is_gnu
                      /\ block.typeflag \in {"0", "S"}
                      /\ sparse_result.segments # <<>>
        type == IF has_sparse /\ block.typeflag = "S" THEN "0" ELSE block.typeflag
        meta == [NoEntry EXCEPT
                   !.present = TRUE,
                   !.path = block.name,
                   !.type = type,
                   !.size = block.size,
                   !.sparse_info = IF has_sparse
                                   THEN SparseInfo(sparse_result.real_size,
                                                   sparse_result.segments)
                                   ELSE NoSparse,
                   !.link_target = IF type \in {"1", "2"} THEN block.linkname ELSE ""]
    IN  IF block.name = ""
        THEN [ok |-> FALSE, code |-> "invalid_header", meta |-> NoEntry]
        ELSE IF type \notin KnownTypes
        THEN [ok |-> FALSE, code |-> "unsupported_feature", meta |-> NoEntry]
        ELSE [ok |-> TRUE, code |-> "", meta |-> meta]

is_regular_file(meta) == meta.type \in RegularTypes
is_gnu_extension(meta) == meta.type \in {"L", "K", "S", "V", "M"}
is_pax_header(meta) == meta.type \in {"x", "g"}

\* sparse_metadata::total_data_size
RECURSIVE total_data_size(_)
total_data_size(segments) ==
    IF segments = <<>> THEN 0
    ELSE Head(segments).size + total_data_size(Tail(segments))

\* sparse_metadata::find_segment: index of the first segment holding offset,
\* 0 when there is none
find_segment(segments, offset) ==
    LET hits == {i \in 1..Len(segments) :
                   /\ offset >= segments[i].offset
                   /\ offset < segments[i].offset + segments[i].size}
    IN  IF hits = {} THEN 0 ELSE CHOOSE i \in hits : \A j \in hits : i <= j

\* ------------------------------------------------------------------------
\* archive_reader private helpers
\* ------------------------------------------------------------------------
\* faulty variant: every short read is taken as the end of the archive
read_block_short_is_end(st) ==
    LET result == StreamRead(st.position_, BLOCK_SIZE)
        st1 == [st EXCEPT !.position_ = result.position_]
    IN  IF result.count # BLOCK_SIZE
        THEN [ok |-> FALSE, code |-> "end_of_archive", block |-> ZeroBlock, st |-> st1]
        ELSE [ok |-> TRUE, code |-> "", block |-> WindowAt(st.position_), st |-> st1]

read_block(st) ==
    LET result == StreamRead(st.position_, BLOCK_SIZE)
        st1 == [st EXCEPT !.position_ = result.position_]
    IN  IF result.count # BLOCK_SIZE
        THEN IF result.count = 0 /\ StreamAtEnd(st1.position_)
             THEN [ok |-> FALSE, code |-> "end_of_archive", block |-> ZeroBlock, st |-> st1]
             ELSE [ok |-> FALSE, code |-> "corrupt_archive", block |-> ZeroBlock, st |-> st1]
        ELSE [ok |-> TRUE, code |-> "", block |-> WindowAt(st.position_), st |-> st1]

Padding(data_size_arg) ==
    (BLOCK_SIZE - (data_size_arg % BLOCK_SIZE)) % BLOCK_SIZE

skip_padding(st, data_size_arg) ==
    LET padding == Padding(data_size_arg)
    IN  IF padding > 0
        THEN LET r == StreamSkip(st.position_, padding)
             IN  [ok |-> r.ok, code |-> r.code, st |-> [st EXCEPT !.position_ = r.position_]]
        ELSE [ok |-> TRUE, code |-> "", st |-> st]

skip_current_entry_data(st) ==
    LET total_entry_size == IF st.current_entry_.present THEN st.current_entry_.size ELSE 0
        data_to_skip == st.current_entry_data_remaining_
        s1 == IF data_to_skip > 0
              THEN StreamSkip(st.position_, data_to_skip)
              ELSE [ok |-> TRUE, code |-> "", position_ |-> st.position_]
        st1 == [st EXCEPT !.position_ = s1.position_]
    IN  IF ~s1.ok THEN [ok |-> FALSE, code |-> s1.code, st |-> st1]
        ELSE LET p == IF total_entry_size > 0
                      THEN skip_padding(st1, total_entry_size)
                      ELSE [ok |-> TRUE, code |-> "", st |-> st1]
             IN  IF ~p.ok THEN [ok |-> FALSE, code |-> p.code, st |-> p.st]
                 ELSE [ok |-> TRUE, code |-> "",
                       st |-> [p.st EXCEPT !.current_entry_data_remaining_ = 0,
                                           !.current_entry_data_consumed_ = 0]]

\* ------------------------------------------------------------------------
\* Contents of extension payloads
\* ------------------------------------------------------------------------
\* some non-zero byte lies in [p, p+n)
NonZeroIn(p, n) ==
    \E i \in 1..Len(data_) :
        /\ data_[i].len > 0
        /\ BLOCK_SIZE * (i - 1) < p + n
        /\ BLOCK_SIZE * (i - 1) + data_[i].len > p

\* the string held by the n bytes at p once trailing NULs are removed
TextAt(p, n) ==
    LET w == WindowAt(p)
    IN  IF ~NonZeroIn(p, n) THEN ""
        ELSE IF p % BLOCK_SIZE = 0 /\ w.ctype = "text" /\ n >= w.len /\ n <= BLOCK_SIZE
        THEN w.text
        ELSE "<bytes>"

Digits == {"0", "1", "2", "3", "4", "5", "6", "7", "8", "9"}
DigitValue(c) ==
    CASE c = "0" -> 0 [] c = "1" -> 1 [] c = "2" -> 2 [] c = "3" -> 3
      [] c = "4" -> 4 [] c = "5" -> 5 [] c = "6" -> 6 [] c = "7" -> 7
      [] c = "8" -> 8 [] c = "9" -> 9

\* std::from_chars for an unsigned integer: the leading decimal digits are
\* converted; the call fails when there is none or the value does not fit
RECURSIVE LeadingDigits(_)
LeadingDigits(chars) ==
    IF chars = <<>> \/ Head(chars) \notin Digits THEN <<>>
    ELSE <<Head(chars)>> \o LeadingDigits(Tail(chars))

RECURSIVE DecimalValue(_, _)
DecimalValue(digits, acc) ==
    IF digits = <<>> THEN acc
    ELSE DecimalValue(Tail(digits), acc * 10 + DigitValue(Head(digits)))

from_chars(chars) ==
    LET digits == LeadingDigits(chars)
        v == DecimalValue(digits, 0)
    IN  IF digits = <<>> \/ v > SIZE_MAX THEN [ok |-> FALSE, value |-> 0]
        ELSE [ok |-> TRUE, value |-> v]

\* pax::parse_pax_headers over the n bytes at p
parse_pax_headers_at(p, n) ==
    LET w == WindowAt(p)
        first_is_nul == ~NonZeroIn(p, Min(n, 1))
    IN  IF n = 0 \/ first_is_nul THEN [ok |-> TRUE, code |-> "", map |-> NoPax]
        ELSE IF p % BLOCK_SIZE = 0 /\ w.ctype = "pax"
        THEN IF n >= w.len THEN [ok |-> TRUE, code |-> "", map |-> w.pax]
             ELSE [ok |-> FALSE, code |-> "corrupt_archive", map |-> NoPax]
        ELSE [ok |-> FALSE, code |-> "invalid_header", map |-> NoPax]

\* gnu::read_gnu_extension_data
read_gnu_extension_data(st, data_size_arg) ==
    IF data_size_arg = 0 THEN [ok |-> TRUE, code |-> "", text |-> "", st |-> st]
    ELSE
    LET r == StreamRead(st.position_, data_size_arg)
        st1 == [st EXCEPT !.position_ = r.position_]
    IN  IF r.count < data_size_arg
        THEN [ok |-> FALSE, code |-> "corrupt_archive", text |-> "", st |-> st1]
        ELSE LET pad == skip_padding(st1, data_size_arg)
             IN  IF ~pad.ok
                 THEN [ok |-> FALSE, code |-> pad.code, text |-> "", st |-> pad.st]
                 ELSE [ok |-> TRUE, code |-> "",
                       text |-> TextAt(st.position_, data_size_arg), st |-> pad.st]

\* faulty variant: the padding after the payload is not skipped
skip_payload_only(st, sz) ==
    LET s1 == StreamSkip(st.position_, sz)
    IN  [ok |-> s1.ok, code |-> s1.code,
         st |-> [st EXCEPT !.position_ = s1.position_]]

\* skip a payload and its padding (V, M and g records)
skip_payload(st, sz) ==
    LET s1 == StreamSkip(st.position_, sz)
        st1 == [st EXCEPT !.position_ = s1.position_]
    IN  IF ~s1.ok THEN [ok |-> FALSE, code |-> s1.code, st |-> st1]
        ELSE skip_padding(st1, sz)

\* sparse::read_sparse_map_continuation: extended-sparse records are read
\* while the continuation flag of the record just read is '1'
RECURSIVE read_sparse_map_continuation(_)
read_sparse_map_continuation(st) ==
    LET r == StreamRead(st.position_, BLOCK_SIZE)
        st1 == [st EXCEPT !.position_ = r.position_]
        w == WindowAt(st.position_)
    IN  IF r.count # BLOCK_SIZE
        THEN [ok |-> FALSE, code |-> "corrupt_archive", segments |-> <<>>, st |-> st1]
        ELSE IF w.isextended
        THEN LET more == read_sparse_map_continuation(st1)
             IN  [more EXCEPT !.segments = OverlaySegments(w.sp) \o more.segments]
        ELSE [ok |-> TRUE, code |-> "", segments |-> OverlaySegments(w.sp), st |-> st1]

\* archive_reader::process_sparse_file
process_sparse_file(st, meta) ==
    IF ~meta.sparse_info.present
    THEN [ok |-> FALSE, code |-> "invalid_header", st |-> st]
    ELSE LET ext == read_sparse_map_continuation(st)
             segs == meta.sparse_info.segments \o ext.segments
         IN  IF ~ext.ok THEN [ok |-> FALSE, code |-> ext.code, st |-> ext.st]
             ELSE [ok |-> TRUE, code |-> "",
                   st |-> [ext.st EXCEPT !.pending_sparse_info_ =
                             SparseInfo(IF segs # <<>>
                                        THEN segs[Len(segs)].offset + segs[Len(segs)].size
                                        ELSE meta.sparse_info.real_size,
                                        segs)]]

\* archive_reader::process_gnu_extension; handled = the record was consumed
process_gnu_extension(st, meta) ==
    IF meta.type = "L"
    THEN LET r == read_gnu_extension_data(st, meta.size)
         IN  [ok |-> r.ok, code |-> r.code, handled |-> r.ok,
              st |-> IF r.ok
                     THEN [r.st EXCEPT !.pending_gnu_extensions_.longname = r.text]
                     ELSE r.st]
    ELSE IF meta.type = "K"
    THEN LET r == read_gnu_extension_data(st, meta.size)
         IN  [ok |-> r.ok, code |-> r.code, handled |-> r.ok,
              st |-> IF r.ok
                     THEN [r.st EXCEPT !.pending_gnu_extensions_.longlink = r.text]
                     ELSE r.st]
    ELSE IF meta.type = "S"
    THEN LET r == process_sparse_file(st, meta)
         IN  [ok |-> r.ok, code |-> r.code, handled |-> r.ok, st |-> r.st]
    ELSE IF meta.type \in {"V", "M"}
    THEN LET r == skip_payload(st, meta.size)
         IN  [ok |-> r.ok, code |-> r.code, handled |-> r.ok, st |-> r.st]
    ELSE [ok |-> TRUE, code |-> "", handled |-> FALSE, st |-> st]

\* faulty variant: the keys of a global header are kept like those of an
\* extended header
process_pax_header_global_kept(st, meta) ==
    LET r == StreamRead(st.position_, meta.size)
        st1 == [st EXCEPT !.position_ = r.position_]
        parsed == parse_pax_headers_at(st.position_, meta.size)
    IN  IF meta.type \notin {"x", "g"}
        THEN [ok |-> TRUE, code |-> "", handled |-> FALSE, st |-> st]
        ELSE IF r.count # meta.size
        THEN [ok |-> FALSE, code |-> "corrupt_archive", handled |-> FALSE, st |-> st1]
        ELSE IF ~parsed.ok
        THEN [ok |-> FALSE, code |-> parsed.code, handled |-> FALSE, st |-> st1]
        ELSE LET pad == skip_padding(
                           [st1 EXCEPT !.pending_pax_headers_ = parsed.map],
                           meta.size)
             IN  [ok |-> pad.ok, code |-> pad.code, handled |-> pad.ok, st |-> pad.st]

\* archive_reader::process_pax_header
process_pax_header(st, meta) ==
    IF meta.type = "x"
    THEN LET r == StreamRead(st.position_, meta.size)
             st1 == [st EXCEPT !.position_ = r.position_]
             parsed == parse_pax_headers_at(st.position_, meta.size)
         IN  IF r.count # meta.size
             THEN [ok |-> FALSE, code |-> "corrupt_archive", handled |-> FALSE, st |-> st1]
             ELSE IF ~parsed.ok
             THEN [ok |-> FALSE, code |-> parsed.code, handled |-> FALSE, st |-> st1]
             ELSE LET pad == skip_padding(
                                [st1 EXCEPT !.pending_pax_headers_ = parsed.map],
                                meta.size)
                  IN  [ok |-> pad.ok, code |-> pad.code, handled |-> pad.ok, st |-> pad.st]
    ELSE IF meta.type = "g"
    THEN LET r == skip_payload(st, meta.size)
         IN  [ok |-> r.ok, code |-> r.code, handled |-> r.ok, st |-> r.st]
    ELSE [ok |-> TRUE, code |-> "", handled |-> FALSE, st |-> st]

\* ------------------------------------------------------------------------
\* Emission of an entry (archive_reader::next_entry from "Apply any pending
\* GNU extensions" on)
\* ------------------------------------------------------------------------
HasKey(map, k) == k \in DOMAIN map

\* pax::has_gnu_sparse_markers
has_gnu_sparse_markers(map) ==
    HasKey(map, "GNU.sparse.major") \/ HasKey(map, "GNU.sparse.minor")
        \/ HasKey(map, "GNU.sparse.map")

\* pax::get_gnu_sparse_version
get_gnu_sparse_version(map) ==
    LET num(k) == IF HasKey(map, k) /\ from_chars(map[k]).ok
                  THEN from_chars(map[k]).value ELSE 0
    IN  <<num("GNU.sparse.major"), num("GNU.sparse.minor")>>

\* the offset/size pairs picked from the numbers of a sparse-1.0 map,
\* starting at index i (1-based) of nums
RECURSIVE MapPairs(_, _, _)
MapPairs(nums, i, real_size) ==
    IF i + 1 > Len(nums) THEN <<>>
    ELSE LET offset == nums[i]
             size == nums[i + 1]
         IN  IF size = 0 \/ size > real_size \/ offset + size > real_size * 2
             THEN <<>>
             ELSE <<Seg(offset, size)>> \o MapPairs(nums, i + 2, real_size)

\* sparse::parse_sparse_1_0_data_map: one record is read; a record that does
\* not start with a decimal number holds no numbers
parse_sparse_1_0_data_map(st, real_size) ==
    LET r == StreamRead(st.position_, BLOCK_SIZE)
        st1 == [st EXCEPT !.position_ = r.position_]
        w == WindowAt(st.position_)
        numbers == IF r.count > 0 /\ st.position_ % BLOCK_SIZE = 0 /\ w.ctype = "map"
                   THEN w.nums ELSE <<>>
    IN  IF \E i \in 1..Len(numbers) : numbers[i] < 0
        THEN [ok |-> FALSE, info |-> NoSparse, st |-> st1]
        ELSE [ok |-> TRUE,
              info |-> SparseInfo(real_size,
                                  IF Len(numbers) >= 4
                                  THEN MapPairs(numbers, 2, real_size) ELSE <<>>),
              st |-> st1]

\* faulty variant: the long name replaces the path even when it is empty
apply_gnu_extensions_unconditional(meta, ext) ==
    [meta EXCEPT !.path = ext.longname,
                 !.link_target = IF ext.longlink # "" THEN ext.longlink ELSE @]

\* gnu::apply_gnu_extensions
apply_gnu_extensions(meta, ext) ==
    [meta EXCEPT !.path = IF ext.longname # "" THEN ext.longname ELSE @,
                 !.link_target = IF ext.longlink # "" THEN ext.longlink ELSE @]

NoGnuExtensions == [longname |-> "", longlink |-> ""]

\* the pending extension context of a reader (the pending_* members and
\* needs_sparse_1_0_processing_)
NoContext ==
    [gnu |-> NoGnuExtensions, pax |-> NoPax, sparse |-> NoSparse,
     needs_sparse_1_0 |-> FALSE]

PendingOf(st) ==
    [gnu |-> st.pending_gnu_extensions_, pax |-> st.pending_pax_headers_,
     sparse |-> st.pending_sparse_info_,
     needs_sparse_1_0 |-> st.needs_sparse_1_0_processing_]

\* pax::parse_acl_text.  An ACL text is kept as the sequence of its
\* comma-separated entries, each entry as the sequence of its colon-separated
\* parts <<type, id, perm>> (fewer parts when a colon is missing); type is a
\* string, id and perm are character sequences; an empty entry is <<>>.
AclTypes == {"user", "group", "mask", "other"}

acl_entry_ok(e) ==
    /\ Len(e) >= 3
    /\ e[1] \in AclTypes
    /\ (e[2] # <<>> => from_chars(e[2]).ok)
    /\ Len(e[3]) = 3

acl_entry(e) ==
    [entry_type |-> IF e[1] = "user" THEN (IF e[2] = <<>> THEN "user_obj" ELSE "user")
                    ELSE IF e[1] = "group"
                    THEN (IF e[2] = <<>> THEN "group_obj" ELSE "group")
                    ELSE e[1],
     id |-> IF e[2] # <<>> THEN from_chars(e[2]).value ELSE 0,
     permissions |-> (IF e[3][1] = "r" THEN 4 ELSE 0)
                        + (IF e[3][2] = "w" THEN 2 ELSE 0)
                        + (IF e[3][3] = "x" THEN 1 ELSE 0)]

NonEmptyEntry(e) == e # <<>>

parse_acl_text(acl_text) ==
    LET entries == SelectSeq(acl_text, NonEmptyEntry)
    IN  IF \A i \in 1..Len(entries) : acl_entry_ok(entries[i])
        THEN [ok |-> TRUE, code |-> "",
              entries |-> [i \in 1..Len(entries) |-> acl_entry(entries[i])]]
        ELSE [ok |-> FALSE, code |-> "invalid_header", entries |-> <<>>]

\* faulty variant: the entries before the malformed one are kept
acl_of_partial(map, key) ==
    IF HasKey(map, key)
    THEN LET entries == SelectSeq(map[key], NonEmptyEntry)
             good == {n \in 0..Len(entries) :
                        \A i \in 1..n : acl_entry_ok(entries[i])}
             upto == CHOOSE n \in good : \A k \in good : k <= n
         IN  [i \in 1..upto |-> acl_entry(entries[i])]
    ELSE <<>>

\* pax::extract_acls: a text that does not parse leaves the list empty
acl_of(map, key) ==
    IF HasKey(map, key) /\ parse_acl_text(map[key]).ok
    THEN parse_acl_text(map[key]).entries ELSE <<>>

extract_acls(map) ==
    [access |-> acl_of(map, "SCHILY.acl.access"),
     default |-> acl_of(map, "SCHILY.acl.default")]

\* PAX path/size overrides and the sparse-1.0 marking
apply_pax_headers(meta, map) ==
    LET m1 == IF HasKey(map, "path") THEN [meta EXCEPT !.path = map["path"]] ELSE meta
        m2 == IF HasKey(map, "size") /\ from_chars(map["size"]).ok
              THEN [m1 EXCEPT !.size = from_chars(map["size"]).value] ELSE m1
        is_1_0 == has_gnu_sparse_markers(map) /\ get_gnu_sparse_version(map) = <<1, 0>>
        real_size == IF HasKey(map, "GNU.sparse.realsize")
                        /\ from_chars(map["GNU.sparse.realsize"]).ok
                     THEN from_chars(map["GNU.sparse.realsize"]).value
                     ELSE m2.size
        m3 == [m2 EXCEPT !.access_acl = extract_acls(map).access,
                         !.default_acl = extract_acls(map).default]
    IN  [meta |-> IF is_1_0
                  THEN [m3 EXCEPT !.size = real_size,
                                  !.sparse_info = SparseInfo(real_size, <<>>)]
                  ELSE m3,
         stored |-> m2.size,
         needs_sparse_1_0 |-> is_1_0]

\* bytes a stored payload of n bytes occupies in the archive
RoundUp(n) == BlocksFor(n) * BLOCK_SIZE

\* The steps below work on w = [st, meta, stored]: the reader state, the
\* metadata being completed (final_metadata) and the size of the stored
\* payload.

\* faulty variant: the long name and long link stay pending after emission
apply_pending_gnu_keeps(w) ==
    [w EXCEPT !.meta = apply_gnu_extensions(w.meta, w.st.pending_gnu_extensions_)]

\* "Apply any pending GNU extensions to the metadata"
apply_pending_gnu(w) ==
    [w EXCEPT !.meta = apply_gnu_extensions(w.meta, w.st.pending_gnu_extensions_),
              !.st.pending_gnu_extensions_ = NoGnuExtensions]

\* "Apply PAX headers to metadata", given the outcome px of apply_pax_headers
apply_pending_pax_result(w, px) ==
    [w EXCEPT !.meta = px.meta,
              !.stored = px.stored,
              !.st.pending_pax_headers_ = NoPax,
              !.st.needs_sparse_1_0_processing_ = @ \/ px.needs_sparse_1_0]

apply_pending_pax(w) ==
    IF DOMAIN w.st.pending_pax_headers_ = {} THEN w
    ELSE apply_pending_pax_result(w, apply_pax_headers(w.meta, w.st.pending_pax_headers_))

\* "Apply any pending sparse info"
apply_pending_sparse(w) ==
    IF w.st.pending_sparse_info_.present /\ is_regular_file(w.meta)
    THEN [w EXCEPT !.meta.sparse_info = w.st.pending_sparse_info_,
                   !.st.pending_sparse_info_ = NoSparse]
    ELSE w

\* "Handle sparse 1.0 format data map parsing", given the outcome mp of
\* parse_sparse_1_0_data_map
apply_sparse_1_0_map(w, mp) ==
    [w EXCEPT !.meta.sparse_info = IF mp.ok THEN mp.info ELSE @,
              !.st = [mp.st EXCEPT !.needs_sparse_1_0_processing_ = FALSE]]

read_sparse_1_0_map(w) ==
    IF w.st.needs_sparse_1_0_processing_ /\ w.meta.sparse_info.present
    THEN apply_sparse_1_0_map(w, parse_sparse_1_0_data_map(
                                     w.st, w.meta.sparse_info.real_size))
    ELSE w

\* the entry is built and becomes the current entry; g: bookkeeping of the
\* call, payload_start: the position after the header record
make_entry(w, g, payload_start) ==
    LET final == [w.meta EXCEPT
                    !.size = IF w.meta.sparse_info.present
                             THEN w.meta.sparse_info.real_size ELSE @,
                    !.id = g.next_id,
                    !.group_start = g.group_start,
                    !.header_pos = g.header_pos,
                    !.payload_start = payload_start,
                    !.stored_end = g.group_start + g.ext_total + BLOCK_SIZE
                                      + RoundUp(w.stored)]
    IN  [st |-> [w.st EXCEPT
                   !.current_entry_data_remaining_ =
                       IF w.meta.sparse_info.present
                       THEN total_data_size(w.meta.sparse_info.segments)
                       ELSE w.meta.size,
                   !.current_entry_data_consumed_ = 0,
                   !.current_entry_ = final],
         kind |-> "entry", code |-> "", entry |-> final, g |-> g]

\* faulty variant: the GNU long name is applied after the PAX keys
emit_entry_gnu_last(st, meta, g) ==
    make_entry(
        read_sparse_1_0_map(
            apply_pending_sparse(
                apply_pending_gnu(
                    apply_pending_pax([st |-> st, meta |-> meta,
                                       stored |-> meta.size])))),
        [g EXCEPT !.pending = PendingOf(st)], st.position_)

\* st: reader state positioned after the header; meta: the decoded header
emit_entry(st, meta, g) ==
    make_entry(
        read_sparse_1_0_map(
            apply_pending_sparse(
                apply_pending_pax(
                    apply_pending_gnu([st |-> st, meta |-> meta,
                                       stored |-> meta.size])))),
        [g EXCEPT !.pending = PendingOf(st)], st.position_)

\* ------------------------------------------------------------------------
\* archive_reader::next_entry
\* ------------------------------------------------------------------------
Failure(st, code, g) ==
    [st |-> st, kind |-> "error", code |-> code, entry |-> NoEntry, g |-> g]

EndOfSequence(st, g) ==
    [st |-> st, kind |-> "none", code |-> "", entry |-> NoEntry, g |-> g]

\* what a failed or successful read_block saw
Seen(b) ==
    IF b.ok THEN (IF is_zero_block(b.block) THEN "zero" ELSE "nonzero")
    ELSE IF b.code = "end_of_archive" THEN "exhausted" ELSE "short"

\* faulty variant: any record after a lone zero record ends the archive
end_of_archive_check_lenient(st, g) ==
    LET second_block == read_block(st)
        g1 == [g EXCEPT !.second = Seen(second_block),
                        !.second_pos = st.position_]
    IN  EndOfSequence([second_block.st EXCEPT !.finished_ = TRUE], g1)

\* faulty variant: the terminator is recognised but finished_ is not set
end_of_archive_check_unlatched(st, g) ==
    LET second_block == read_block(st)
        g1 == [g EXCEPT !.second = Seen(second_block),
                        !.second_pos = st.position_]
    IN  IF second_block.ok /\ is_zero_block(second_block.block)
        THEN EndOfSequence(second_block.st, g1)
        ELSE Failure(second_block.st, "corrupt_archive", g1)

\* faulty variant: a zero record followed by an exhausted stream is taken
\* as the end of the archive
end_of_archive_check_soft(st, g) ==
    LET second_block == read_block(st)
        g1 == [g EXCEPT !.second = Seen(second_block),
                        !.second_pos = st.position_]
    IN  IF (second_block.ok /\ is_zero_block(second_block.block))
           \/ (~second_block.ok /\ second_block.code = "end_of_archive")
        THEN EndOfSequence([second_block.st EXCEPT !.finished_ = TRUE], g1)
        ELSE Failure(second_block.st, "corrupt_archive", g1)

\* faulty variant: the error of the failed second read is passed on as it is
end_of_archive_check_passes_error(st, g) ==
    LET second_block == read_block(st)
        g1 == [g EXCEPT !.second = Seen(second_block),
                        !.second_pos = st.position_]
    IN  IF second_block.ok /\ is_zero_block(second_block.block)
        THEN EndOfSequence([second_block.st EXCEPT !.finished_ = TRUE], g1)
        ELSE IF ~second_block.ok
        THEN Failure(second_block.st, second_block.code, g1)
        ELSE Failure(second_block.st, "corrupt_archive", g1)

\* the first record was all-zero ("Check for end-of-archive"): the second
\* record decides
end_of_archive_check(st, g) ==
    LET second_block == read_block(st)
        g1 == [g EXCEPT !.second = Seen(second_block),
                        !.second_pos = st.position_]
    IN  IF second_block.ok /\ is_zero_block(second_block.block)
        THEN EndOfSequence([second_block.st EXCEPT !.finished_ = TRUE], g1)
        ELSE Failure(second_block.st, "corrupt_archive", g1)

\* faulty variant: an exhausted stream at a header position is an error
header_read_failed_strict(b, g) ==
    Failure(b.st, b.code, g)

\* the header record could not be read
header_read_failed(b, g) ==
    IF b.code = "end_of_archive"
    THEN EndOfSequence([b.st EXCEPT !.finished_ = TRUE], g)
    ELSE Failure(b.st, b.code, g)

NoBookkeeping ==
    [top |-> TRUE, next_id |-> 0, skipped |-> FALSE, skip_end |-> 0,
     prev |-> NoEntry, group_start |-> 0, ext_total |-> 0, header_pos |-> 0,
     first |-> "none", second |-> "none", second_pos |-> 0, reads |-> 0,
     frames |-> <<>>, pending |-> NoContext, parsed |-> "none"]

\* bookkeeping of one extension record: its type flag and size, the position
\* of its header, the reader before its payload was processed and after
Frame(meta, at, st, pr) ==
    [type |-> meta.type, size |-> meta.size, at |-> at, ok |-> pr.ok,
     before |-> st, after |-> pr.st]

RECURSIVE next_entry_from(_, _)

\* an extension record was processed (pr): the member it belongs to follows
after_extension(pr, st, meta, g) ==
    IF ~pr.ok
    THEN Failure(pr.st, pr.code,
                 [g EXCEPT !.frames = Append(@, Frame(meta, g.header_pos, st, pr))])
    ELSE IF pr.handled
    THEN next_entry_from(pr.st,
                         [g EXCEPT !.ext_total = @ + BLOCK_SIZE + RoundUp(meta.size),
                                   !.frames = Append(@, Frame(meta, g.header_pos,
                                                              st, pr))])
    ELSE emit_entry(st, meta, g)

\* the header record was parsed (metadata_result); st: state after the record
dispatch_header(metadata_result, st, g0) ==
    LET meta == metadata_result.meta
        g == [g0 EXCEPT !.parsed = IF metadata_result.ok THEN "ok"
                                   ELSE metadata_result.code]
    IN  IF ~metadata_result.ok THEN Failure(st, metadata_result.code, g)
        ELSE IF is_gnu_extension(meta)
        THEN after_extension(process_gnu_extension(st, meta), st, meta, g)
        ELSE IF is_pax_header(meta)
        THEN after_extension(process_pax_header(st, meta), st, meta, g)
        ELSE emit_entry(st, meta, g)

\* "Read header block" gave block_result; st: state before the read
header_record(block_result, st, g) ==
    LET g2 == [g EXCEPT !.first = Seen(block_result),
                        !.header_pos = st.position_,
                        !.second = "none",
                        !.parsed = "none",
                        !.reads = @ + 1]
    IN  IF ~block_result.ok THEN header_read_failed(block_result, g2)
        ELSE IF is_zero_block(block_result.block)
        THEN end_of_archive_check(block_result.st, g2)
        ELSE dispatch_header(parse_header(block_result.block), block_result.st, g2)

\* "Clear the current entry state after skipping data"; prev: the entry
\* that was current when the call began
clear_current_entry(st, prev, g) ==
    LET st1 == [st EXCEPT !.current_entry_ = NoEntry,
                          !.current_entry_data_remaining_ = 0,
                          !.current_entry_data_consumed_ = 0]
        g1 == IF g.top
              THEN [g EXCEPT !.top = FALSE, !.skipped = TRUE,
                             !.skip_end = st.position_,
                             !.prev = prev,
                             !.group_start = st.position_]
              ELSE g
    IN  header_record(read_block(st1), st1, g1)

\* "Skip any remaining data from the previous entry" gave skip_result
after_skip(skip_result, prev, g) ==
    IF ~skip_result.ok THEN Failure(skip_result.st, skip_result.code, g)
    ELSE clear_current_entry(skip_result.st, prev, g)

next_entry_from(st, g) ==
    IF st.finished_ THEN EndOfSequence(st, g)
    ELSE after_skip(skip_current_entry_data(st), st.current_entry_, g)

next_entry(st, id) == next_entry_from(st, [NoBookkeeping EXCEPT !.next_id = id])

\* faulty variant: after an error the iterator keeps its reader
iterator_increment_keeps_reader(it, kind) ==
    IF kind = "entry" THEN [it EXCEPT !.has_current = TRUE]
    ELSE [it EXCEPT !.error_occurred_ = (kind = "error") \/ @,
                    !.reader_ = (kind = "error"),
                    !.has_current = FALSE]

\* archive_reader::iterator::operator++ given the outcome of next_entry
\* (kind "entry", "none" or "error")
iterator_increment(it, kind) ==
    IF kind = "entry" THEN [it EXCEPT !.has_current = TRUE]
    ELSE [it EXCEPT !.error_occurred_ = (kind = "error") \/ @,
                    !.reader_ = FALSE,
                    !.has_current = FALSE]

\* ------------------------------------------------------------------------
\* Data readers
\* ------------------------------------------------------------------------
\* a slice of the stream, or a run of synthesized zero bytes
Chunk(from, n) == [zero |-> FALSE, from |-> from, n |-> n]
Zeros(n) == [zero |-> TRUE, from |-> 0, n |-> n]

ReadFailure(st, code) == [st |-> st, kind |-> "error", code |-> code, chunks |-> <<>>]
ReadOk(st, chunks) == [st |-> st, kind |-> "data", code |-> "", chunks |-> chunks]

\* base_reader from "const size_t to_read" on; st: state after the skip
base_reader_read(st, length) ==
    LET to_read == Min(length, st.current_entry_data_remaining_)
        result == StreamRead(st.position_, to_read)
    IN  IF to_read = 0 THEN ReadOk(st, <<>>)
        ELSE ReadOk([st EXCEPT !.position_ = result.position_,
                               !.current_entry_data_remaining_ = @ - result.count,
                               !.current_entry_data_consumed_ = @ + result.count,
                               !.buffer = [from |-> result.from,
                                           count |-> result.count,
                                           size |-> to_read]],
                    IF result.count > 0
                    THEN <<Chunk(result.from, result.count)>> ELSE <<>>)

\* "Skip any gap between consumed and requested offset"
base_reader_skip(st, skip_amount, length) ==
    LET sk == StreamSkip(st.position_, skip_amount)
    IN  IF skip_amount = 0 THEN base_reader_read(st, length)
        ELSE IF ~sk.ok THEN ReadFailure(st, sk.code)
        ELSE base_reader_read(
                 [st EXCEPT !.position_ = sk.position_,
                            !.current_entry_data_consumed_ = @ + skip_amount,
                            !.current_entry_data_remaining_ =
                                IF @ >= skip_amount THEN @ - skip_amount
                                ELSE SIZE_MAX - (skip_amount - @ - 1)],
                 length)

\* the base_reader lambda of next_entry: it works on the reader's stream and
\* on the reader's remaining/consumed counters through the captured pointers
base_reader(st, offset, length) ==
    IF offset > 0 THEN ReadFailure(st, "unsupported_feature")
    ELSE IF offset < st.current_entry_data_consumed_
    THEN ReadFailure(st, "invalid_operation")
    ELSE base_reader_skip(st, offset - st.current_entry_data_consumed_, length)

RECURSIVE ChunksLen(_)
ChunksLen(chunks) ==
    IF chunks = <<>> THEN 0 ELSE Head(chunks).n + ChunksLen(Tail(chunks))

\* sum of the sizes of the segments before index idx
RECURSIVE SizesBefore(_, _)
SizesBefore(segments, idx) ==
    IF idx <= 1 THEN 0
    ELSE segments[idx - 1].size + SizesBefore(segments, idx - 1)

\* offset of the first segment (in stored order) that starts after offset
NextSegmentStart(info, offset) ==
    LET after == {i \in 1..Len(info.segments) : info.segments[i].offset > offset}
    IN  IF after = {} THEN info.real_size
        ELSE info.segments[CHOOSE i \in after : \A j \in after : i <= j].offset

RECURSIVE sparse_loop(_, _, _, _, _)

\* "Append to result": the base reader answered read_result for a segment
segment_read(info, read_result, current_offset, remaining, chunks) ==
    LET got == ChunksLen(read_result.chunks)
    IN  IF read_result.kind = "error" THEN read_result
        ELSE IF got = 0
        THEN [st |-> read_result.st, kind |-> "hang", code |-> "",
              chunks |-> chunks]
        ELSE sparse_loop(info, read_result.st, current_offset + got,
                         remaining - got, chunks \o read_result.chunks)

\* "We're in a data segment"
segment_branch(info, st, segment_idx, current_offset, remaining, chunks) ==
    LET segment == info.segments[segment_idx]
        segment_offset == current_offset - segment.offset
        to_read == Min(remaining, segment.size - segment_offset)
        sparse_data_offset == SizesBefore(info.segments, segment_idx) + segment_offset
    IN  segment_read(info, base_reader(st, sparse_data_offset, to_read),
                     current_offset, remaining, chunks)

\* the while loop of the lambda returned by sparse::make_sparse_reader;
\* kind "hang": an iteration made no progress, so the loop never ends
sparse_loop(info, st, current_offset, remaining, chunks) ==
    IF remaining = 0 THEN ReadOk(st, chunks)
    ELSE IF find_segment(info.segments, current_offset) # 0
    THEN segment_branch(info, st, find_segment(info.segments, current_offset),
                        current_offset, remaining, chunks)
    ELSE LET hole_size == NextSegmentStart(info, current_offset) - current_offset
             to_fill == Min(remaining, hole_size)
         IN  sparse_loop(info, st, current_offset + to_fill,
                         remaining - to_fill, chunks \o <<Zeros(to_fill)>>)

\* the lambda returned by sparse::make_sparse_reader
sparse_reader(info, st, offset, length) ==
    IF offset >= info.real_size THEN ReadOk(st, <<>>)
    ELSE sparse_loop(info, st, offset, Min(length, info.real_size - offset), <<>>)

\* faulty variant: the entry type is not looked at
read_data_any_type(entry, st, offset, length) ==
    IF entry.sparse_info.present
    THEN sparse_reader(entry.sparse_info, st, offset, length)
    ELSE base_reader(st, offset, length)

\* archive_entry::read_data in streaming mode
read_data(entry, st, offset, length) ==
    IF ~is_regular_file(entry) THEN ReadFailure(st, "invalid_operation")
    ELSE IF entry.sparse_info.present
    THEN sparse_reader(entry.sparse_info, st, offset, length)
    ELSE base_reader(st, offset, length)

\* ------------------------------------------------------------------------
\* The caller: construction and the public operations
\* ------------------------------------------------------------------------
ReadOffsets == {0, 1}
ReadLengths == {300, SIZE_MAX}

\* the thread_local buffer of base_reader: resized to `size` bytes, of which
\* the first `count` were copied from stream position `from` on.  It belongs
\* to the thread, not to a reader; every reader record carries it.
NoBuffer == [from |-> 0, count |-> 0, size |-> 0]

NewReader ==
    [buffer |-> NoBuffer,
     position_ |-> 0,
     current_entry_ |-> NoEntry,
     current_entry_data_remaining_ |-> 0,
     current_entry_data_consumed_ |-> 0,
     finished_ |-> FALSE,
     pending_gnu_extensions_ |-> NoGnuExtensions,
     pending_sparse_info_ |-> NoSparse,
     pending_pax_headers_ |-> NoPax,
     needs_sparse_1_0_processing_ |-> FALSE]

NoIterator ==
    [exists |-> FALSE, reader_ |-> FALSE, has_current |-> FALSE,
     error_occurred_ |-> FALSE]

NoCall ==
    [op |-> "none", kind |-> "none", code |-> "", chunks |-> <<>>,
     g |-> NoBookkeeping, entry |-> NoEntry, offset |-> 0, length |-> 0,
     before |-> NewReader]

\* a slice over the buffer: `n` bytes copied from stream position `from`;
\* dangling once the storage it points into was released
NoSlice == [present |-> FALSE, from |-> 0, n |-> 0, dangling |-> FALSE]

\* the slice a read_data call that answered r handed out.  A slice of a
\* sparse entry lies in the buffers of the sparse reader and is not followed.
SliceOf(r, entry) ==
    IF r.kind = "data" /\ r.chunks # <<>> /\ ~entry.sparse_info.present
    THEN [present |-> TRUE, from |-> r.chunks[1].from, n |-> r.chunks[1].n,
          dangling |-> FALSE]
    ELSE NoSlice

\* buffer.resize(to_read): a larger size may move the storage
ReallocChoices(old, new) == IF new.size > old.size THEN BOOLEAN ELSE {FALSE}

\* a slice somebody else holds while the buffer is resized
Disturbed(slice, realloc) ==
    IF slice.present /\ realloc THEN [slice EXCEPT !.dangling = TRUE] ELSE slice

NoPeer ==
    [exists |-> FALSE, reader |-> NewReader, entry |-> NoEntry, entries |-> 0,
     kind |-> "none", code |-> ""]

NoHeld == [own |-> NoSlice, peer |-> NoSlice]

InitWith(items, cuts, kinds) ==
    /\ data_ \in ArchivesOf(items, MaxItems)
    /\ \E cut \in cuts :
          /\ cut = 0 \/ Len(data_) > 0
          /\ data_size = BLOCK_SIZE * Len(data_) - cut
    /\ stream_kind \in kinds
    /\ reader = NewReader
    /\ iter = NoIterator
    /\ yielded = <<>>
    /\ last = NoCall
    /\ rejected = {}
    /\ peer = NoPeer
    /\ held = NoHeld
    /\ arg = NoDirectCall
    /\ ret = NoDirectCall

Init == InitWith(CoreItems, Cuts, StreamKinds)

\* complete archives with GNU and PAX extension records
InitExt == InitWith(ExtItems, {0}, {"memory_mapped_stream"})

InitGnu == InitWith(GnuItems, {0}, {"memory_mapped_stream"})

\* archives, whole or cut short, read through a memory mapping, a file, or
\* a file that was truncated after open()
ShortItems == {ItemZero, ItemFile600, ItemLongName}

InitShort ==
    InitWith(ShortItems, Cuts,
             {"memory_mapped_stream", "file_stream", "file_stream_stale"})

Returned == last.kind # "hang"

\* effect of a next_entry call that answered r, made as operation op
Returns(op, r) ==
    /\ reader' = r.st
    /\ yielded' = IF r.kind = "entry" THEN Append(yielded, r.entry) ELSE yielded
    /\ last' = [NoCall EXCEPT !.op = op, !.kind = r.kind, !.code = r.code,
                              !.g = r.g, !.entry = r.entry, !.before = reader]
    /\ rejected' = IF r.g.first = "zero" /\ r.g.second = "nonzero"
                   THEN rejected \cup {r.g.second_pos} ELSE rejected
    /\ peer' = [peer EXCEPT !.reader.buffer = r.st.buffer]
    /\ held' = [held EXCEPT !.own = NoSlice]
    /\ UNCHANGED <<data_, data_size, stream_kind, arg, ret>>

CallNextEntry(op) == Returns(op, next_entry(reader, Len(yielded) + 1))

\* reader.next_entry(), by a caller that does not use the iterator
NextEntry ==
    /\ Returned
    /\ ~iter.exists
    /\ CallNextEntry("next_entry")
    /\ UNCHANGED iter

\* reader.begin() on a fresh reader: iterator{this}, whose constructor
\* advances once
IterBegin ==
    /\ Returned
    /\ ~iter.exists
    /\ last.op = "none"
    /\ CallNextEntry("advance")
    /\ iter' = iterator_increment([NoIterator EXCEPT !.exists = TRUE, !.reader_ = TRUE],
                                  last'.kind)

\* ++it on an iterator that still has its reader and no error
IterAdvance ==
    /\ Returned
    /\ iter.exists
    /\ iter.reader_ /\ ~iter.error_occurred_
    /\ CallNextEntry("advance")
    /\ iter' = iterator_increment(iter, last'.kind)

\* ++it on an iterator at end or with an error: nothing is done
IterAdvanceAtEnd ==
    /\ Returned
    /\ iter.exists
    /\ ~(iter.reader_ /\ ~iter.error_occurred_)
    /\ last' = [NoCall EXCEPT !.op = "advance_at_end", !.before = reader]
    /\ held' = [held EXCEPT !.own = NoSlice]
    /\ UNCHANGED <<data_, data_size, stream_kind, reader, iter, yielded, rejected,
                   peer, arg, ret>>

\* effect of a read_data call that answered r
ReadReturns(r, entry, offset, length) ==
    /\ reader' = r.st
    /\ last' = [NoCall EXCEPT !.op = "read_data", !.kind = r.kind,
                              !.code = r.code, !.chunks = r.chunks,
                              !.entry = entry, !.offset = offset,
                              !.length = length, !.before = reader]
    /\ peer' = [peer EXCEPT !.reader.buffer = r.st.buffer]
    /\ \E realloc \in ReallocChoices(reader.buffer, r.st.buffer) :
          held' = [own |-> SliceOf(r, entry),
                   peer |-> Disturbed(held.peer, realloc)]

\* entry.read_data(offset, length) on any entry the caller holds
ReadData ==
    /\ Returned
    /\ \E i \in 1..Len(yielded), offset \in ReadOffsets, length \in ReadLengths :
          ReadReturns(read_data(yielded[i], reader, offset, length),
                      yielded[i], offset, length)
    /\ UNCHANGED <<data_, data_size, stream_kind, iter, yielded, rejected, arg, ret>>

Next ==
    \/ NextEntry
    \/ IterBegin
    \/ IterAdvance
    \/ IterAdvanceAtEnd
    \/ ReadData

Spec == Init /\ [][Next]_vars

SpecExt == InitExt /\ [][Next]_vars

SpecGnu == InitGnu /\ [][Next]_vars

SpecShort == InitShort /\ [][Next]_vars

InitAcl == InitWith(AclItems, {0}, {"memory_mapped_stream"})
SpecAcl == InitAcl /\ [][Next]_vars

InitPaxSparse == InitWith(PaxSparseItems, {0}, {"memory_mapped_stream"})
SpecPaxSparse == InitPaxSparse /\ [][Next]_vars

InitSparse == InitWith(SparseItems, {0}, {"memory_mapped_stream"})
SpecSparse == InitSparse /\ [][Next]_vars

InitHeader == InitWith(HeaderItems, {0}, {"memory_mapped_stream"})
SpecHeader == InitHeader /\ [][Next]_vars

\* archives whose last record may be missing altogether
LostItems == {ItemZero, ItemFile600, ItemSparse2}
InitLost == InitWith(LostItems, {0, BLOCK_SIZE}, StreamKinds)
SpecLost == InitLost /\ [][Next]_vars

\* ------------------------------------------------------------------------
\* Two readers on one thread, each over a stream of its own.  Both streams
\* hold the same archive; the second reader is used through next_entry and
\* read_data on its current entry.
\* ------------------------------------------------------------------------
TwoItems == {ItemFile600}

InitTwo ==
    /\ data_ \in ArchivesOf(TwoItems, MaxItems)
    /\ data_size = BLOCK_SIZE * Len(data_)
    /\ stream_kind = "memory_mapped_stream"
    /\ reader = NewReader
    /\ iter = NoIterator
    /\ yielded = <<>>
    /\ last = NoCall
    /\ rejected = {}
    /\ peer = [NoPeer EXCEPT !.exists = TRUE]
    /\ held = NoHeld
    /\ arg = NoDirectCall
    /\ ret = NoDirectCall

\* effect of a next_entry call of the second reader that answered r
PeerReturns(r) ==
    /\ peer' = [peer EXCEPT !.reader = r.st,
                            !.entry = IF r.kind = "entry" THEN r.entry ELSE NoEntry,
                            !.entries = IF r.kind = "entry" THEN @ + 1 ELSE @,
                            !.kind = r.kind, !.code = r.code]
    /\ reader' = [reader EXCEPT !.buffer = r.st.buffer]
    /\ held' = [held EXCEPT !.peer = NoSlice]

\* next_entry() of the second reader
PeerNextEntry ==
    /\ peer.exists
    /\ PeerReturns(next_entry(peer.reader, peer.entries + 1))
    /\ UNCHANGED <<data_, data_size, stream_kind, iter, yielded, last, rejected,
                   arg, ret>>

\* effect of a read_data call of the second reader that answered r
PeerReadReturns(r) ==
    /\ peer' = [peer EXCEPT !.reader = r.st, !.kind = r.kind, !.code = r.code]
    /\ reader' = [reader EXCEPT !.buffer = r.st.buffer]
    /\ \E realloc \in ReallocChoices(reader.buffer, r.st.buffer) :
          held' = [own |-> Disturbed(held.own, realloc),
                   peer |-> SliceOf(r, peer.entry)]

\* read_data(0, length) on the current entry of the second reader
PeerReadData ==
    /\ peer.exists
    /\ peer.entry.present
    /\ \E length \in ReadLengths :
          PeerReadReturns(read_data(peer.entry, peer.reader, 0, length))
    /\ UNCHANGED <<data_, data_size, stream_kind, iter, yielded, last, rejected,
                   arg, ret>>

NextTwo ==
    \/ Next
    \/ PeerNextEntry
    \/ PeerReadData

SpecTwo == InitTwo /\ [][NextTwo]_vars

\* ------------------------------------------------------------------------
\* Library functions called directly, without a reader
\* ------------------------------------------------------------------------
InitDirect(args) ==
    /\ data_ = <<>>
    /\ data_size = 0
    /\ stream_kind = "memory_mapped_stream"
    /\ reader = NewReader
    /\ iter = NoIterator
    /\ yielded = <<>>
    /\ last = NoCall
    /\ rejected = {}
    /\ peer = NoPeer
    /\ held = NoHeld
    /\ arg \in {<<a>> : a \in args}
    /\ ret = NoDirectCall

\* the call returns r
DirectReturns(r) ==
    /\ ret = NoDirectCall
    /\ ret' = <<r>>
    /\ UNCHANGED <<data_, data_size, stream_kind, reader, iter, yielded, last,
                   rejected, peer, held, arg>>

Rep(c, k) == [i \in 1..k |-> c]

\* fields of up to MaxDigits digits, with or without a leading space and
\* with or without something after the digits
MaxDigits == 23
OctalFields ==
    {Rep(" ", pad) \o <<first>> \o Rep(rest, k) \o after :
        pad \in 0..1, first \in {"0", "1", "2", "7", "9"}, rest \in {"0", "7"},
        k \in 0..(MaxDigits - 1), after \in {<<>>, <<"NUL">>, <<" ", "5">>}}

InitOctal == InitDirect(OctalFields)

\* detail::parse_octal(field)
ParseOctal == DirectReturns(parse_octal(arg[1]))

NextOctal == ParseOctal

SpecOctal == InitOctal /\ [][NextOctal]_vars

\* ------------------------------------------------------------------------
\* pax::parse_pax_headers, byte by byte.  data is the buffer it is given;
\* positions count from 0 and end is Len(data).  Every answer carries what
\* the call touched: read_to, one past the last byte it looked at, and
\* built, the byte ranges it made strings of, each with the extent of the
\* record that was being decoded.
\* ------------------------------------------------------------------------
CharAt(data, pos) == data[pos + 1]
Slice(data, from, to) == SubSeq(data, from + 1, to)
Larger(a, b) == IF a > b THEN a ELSE b

\* "while (pos < end && *pos >= '0' && *pos <= '9') ++pos"
RECURSIVE length_end(_, _)
length_end(data, pos) ==
    IF pos < Len(data) /\ CharAt(data, pos) \in Digits
    THEN length_end(data, pos + 1) ELSE pos

\* std::find(first, last, '=') on a range with first <= last
RECURSIVE find_equals(_, _, _)
find_equals(data, first, last_) ==
    IF first = last_ \/ CharAt(data, first) = "=" THEN first
    ELSE find_equals(data, first + 1, last_)

Built(from, to, record_start, record_end) ==
    [from |-> from, to |-> to, record_start |-> record_start,
     record_end |-> record_end]

PaxAnswer(kind, code, map, read_to, built) ==
    [kind |-> kind, code |-> code, map |-> map, read_to |-> read_to,
     built |-> built]

\* std::find entered with key_start > value_end: the loop cannot meet its
\* end and runs on to the first '=' it sees, inside the buffer or past it;
\* the key is made of the bytes up to there, and the value is a string made
\* of a range whose end lies before its start.  The behaviour is undefined:
\* std::length_error leaves the function, or the process is stopped.
find_past_end(data, key_start, record_start, record_end, read_to, built) ==
    LET equals_pos == find_equals(data, key_start, Len(data))
        seen == IF equals_pos < Len(data) THEN equals_pos + 1 ELSE Len(data) + 1
    IN  {PaxAnswer(kind, "", NoPax, Larger(read_to, seen),
                   Append(built, Built(key_start, equals_pos,
                                       record_start, record_end))) :
            kind \in {"length_error", "stopped"}}

\* the loop of pax::parse_pax_headers, from the record at pos on
RECURSIVE pax_records(_, _, _, _, _)
pax_records(data, pos, result, read_to, built) ==
    IF ~(pos < Len(data) /\ CharAt(data, pos) # "NUL")
    THEN {PaxAnswer("map", "", result, Larger(read_to, Min(pos + 1, Len(data))),
                    built)}
    ELSE
    LET length_start == pos
        digits_end == length_end(data, pos)
        length == from_chars(Slice(data, length_start, digits_end))
        key_start == digits_end + 1
        record_end == length_start + length.value
        value_end == IF record_end > key_start /\ CharAt(data, record_end - 1) = "LF"
                     THEN record_end - 1 ELSE record_end
        equals_pos == find_equals(data, key_start, value_end)
        scanned == Larger(read_to, Min(digits_end + 1, Len(data)))
        Fails(code) == {PaxAnswer("error", code, NoPax, scanned, built)}
    IN  IF \/ digits_end = length_start
           \/ digits_end >= Len(data)
           \/ CharAt(data, digits_end) # " "
        THEN Fails("invalid_header")
        ELSE IF ~length.ok THEN Fails("invalid_header")
        ELSE IF length.value = 0 THEN Fails("invalid_header")
        ELSE IF record_end > Len(data) THEN Fails("corrupt_archive")
        ELSE IF key_start > value_end
        THEN find_past_end(data, key_start, length_start, record_end, scanned, built)
        ELSE IF equals_pos = value_end
        THEN {PaxAnswer("error", "invalid_header", NoPax,
                        Larger(scanned, record_end), built)}
        ELSE pax_records(data, record_end,
                         (Slice(data, key_start, equals_pos)
                             :> Slice(data, equals_pos + 1, value_end)) @@ result,
                         Larger(scanned, record_end),
                         built \o <<Built(key_start, equals_pos,
                                          length_start, record_end),
                                    Built(equals_pos + 1, value_end,
                                          length_start, record_end)>>)

\* pax::parse_pax_headers(data): the answers the call can give
parse_pax_headers(data) == pax_records(data, 0, NoPax, 0, <<>>)

\* buffers: a length, a space or none, a body, and what follows the record
PaxLengths ==
    {<<>>, <<"0">>, <<"1">>, <<"2">>, <<"5">>, <<"6">>, <<"7">>, <<"1", "2">>,
     <<"1", "0", "0", "0">>}
PaxBodies ==
    {<<>>, <<"a", "=", "b", "LF">>, <<"a", "b", "c", "LF">>, <<"a", "=", "b">>,
     <<"a", "b">>}
PaxTails == {<<>>, <<"NUL">>, <<"6", " ", "c", "=", "d", "LF">>}
PaxBuffers ==
    {length \o space \o body \o tail :
        length \in PaxLengths, space \in {<<>>, <<" ">>}, body \in PaxBodies,
        tail \in PaxTails}

InitPax == InitDirect(PaxBuffers)

\* pax::parse_pax_headers(data), called on a buffer
ParsePax == \E answer \in parse_pax_headers(arg[1]) : DirectReturns(answer)

NextPax == ParsePax

SpecPax == InitPax /\ [][NextPax]_vars

\* ------------------------------------------------------------------------
\* Statements
\* ------------------------------------------------------------------------
\* the calls that advance the reader
Advances == {"next_entry", "advance"}

\* the most recent call was a read_data on the entry the reader stands on
ReadOfCurrent ==
    /\ last.op = "read_data"
    /\ last.before.current_entry_.present
    /\ last.entry.id = last.before.current_entry_.id

\* the whole stored extent of entry e exists in the stream
Complete(e) == e.stored_end <= data_size

\* the k-th byte (0-based) of a read result: a stream position, -1 for a
\* synthesized zero byte, -2 when the result is shorter
RECURSIVE ByteOf(_, _)
ByteOf(chunks, k) ==
    IF chunks = <<>> THEN -2
    ELSE IF k < Head(chunks).n
    THEN (IF Head(chunks).zero THEN -1 ELSE Head(chunks).from + k)
    ELSE ByteOf(Tail(chunks), k - Head(chunks).n)

\* the byte a sparse entry holds at logical offset k: the stored byte of the
\* segment that covers k, -1 (zero) in a hole
LogicalByte(e, k) ==
    LET segs == e.sparse_info.segments
        covering == {i \in 1..Len(segs) :
                       segs[i].offset <= k /\ k < segs[i].offset + segs[i].size}
    IN  IF covering = {} THEN -1
        ELSE LET i == CHOOSE j \in covering : TRUE
             IN  e.payload_start + SizesBefore(segs, i) + (k - segs[i].offset)

\* C1: when next_entry has skipped what was left of the entry yielded before
\* and is about to read the next header, the stream stands exactly at the end
\* of that entry's stored extent: first record of the entry + 512 per header
\* + payload and padding of its extension records + stored payload + padding,
\* whatever was read through read_data in between.
C1_ExactAdvance ==
    (last.op \in Advances /\ last.g.skipped /\ last.g.prev.present)
        => last.g.skip_end = last.g.prev.stored_end

C3_LoneZeroRejected ==
    [][ /\ (last'.op \in Advances /\ last'.g.first = "zero"
               /\ last'.g.second = "nonzero")
            => /\ last'.kind = "error"
               /\ last'.code = "corrupt_archive"
               /\ yielded' = yielded
        /\ \A q \in rejected' : \A i \in 1..Len(yielded') :
               yielded'[i].header_pos # q ]_vars

C3_Witness ==
    /\ last.op \in Advances
    /\ last.g.first = "zero" /\ last.g.second = "nonzero"
    /\ last.kind = "error"
    /\ Len(yielded) >= 1

\* C4: two consecutive all-zero records at a header position end the
\* sequence without error and mark the reader finished; a finished reader
\* answers every later next_entry with "no entry" and does not move; an
\* archive that starts with two zero records yields nothing.
C4_Terminator ==
    [][ /\ (last'.op \in Advances /\ last'.g.first = "zero"
               /\ last'.g.second = "zero")
            => (last'.kind = "none" /\ reader'.finished_)
        /\ (reader.finished_ /\ last'.op \in Advances)
            => (last'.kind = "none" /\ reader' = reader /\ last'.g.reads = 0)
        /\ (Len(data_) >= 2 /\ data_[1] = ZeroBlock /\ data_[2] = ZeroBlock
               /\ data_size >= 2 * BLOCK_SIZE)
            => yielded' = <<>> ]_vars

C4_Witness ==
    /\ last.op = "next_entry"
    /\ last.before.finished_
    /\ last.kind = "none"
    /\ Len(yielded) >= 1
    /\ reader.position_ % BLOCK_SIZE = 0
    /\ reader.position_ >= 2 * BLOCK_SIZE
    /\ RecordAt(reader.position_ \div BLOCK_SIZE - 1) = ZeroBlock
    /\ RecordAt(reader.position_ \div BLOCK_SIZE - 2) = ZeroBlock

C7_SparseView ==
    (ReadOfCurrent /\ last.entry.sparse_info.present /\ Complete(last.entry)
        /\ last.offset = 0 /\ last.length >= last.entry.sparse_info.real_size
        /\ last.before.current_entry_data_consumed_ = 0)
        => /\ last.kind = "data"
           /\ \A k \in 0..(last.entry.sparse_info.real_size - 1) :
                  ByteOf(last.chunks, k) = LogicalByte(last.entry, k)

\* C8: a read_data on the current non-sparse regular entry with an offset
\* below the number of bytes already consumed fails with invalid_operation.
C8_BackwardRejected ==
    (ReadOfCurrent /\ ~last.entry.sparse_info.present /\ is_regular_file(last.entry)
        /\ last.offset < last.before.current_entry_data_consumed_)
        => (last.kind = "error" /\ last.code = "invalid_operation")

\* C9: a read_data on the current non-sparse regular entry with an offset
\* above the number of bytes already consumed (and inside the payload) is
\* served: the bytes returned start at that offset of the payload, and the
\* consumed count ends at offset + bytes returned.
C9_ForwardSkip ==
    (ReadOfCurrent /\ ~last.entry.sparse_info.present /\ is_regular_file(last.entry)
        /\ Complete(last.entry)
        /\ last.offset > last.before.current_entry_data_consumed_
        /\ last.offset < last.entry.size)
        => /\ last.kind = "data"
           /\ last.chunks =
                 <<Chunk(last.entry.payload_start + last.offset,
                         Min(last.length, last.entry.size - last.offset))>>
           /\ reader.current_entry_data_consumed_ =
                 last.offset + ChunksLen(last.chunks)

\* C10: a read_data on an entry yielded before the one the reader stands on
\* returns no bytes and leaves the stream position and the consumed and
\* remaining counts of the current entry as they were.
C10_StaleReadInert ==
    (last.op = "read_data" /\ last.before.current_entry_.present
        /\ last.entry.id < last.before.current_entry_.id)
        => /\ last.chunks = <<>>
           /\ reader.position_ = last.before.position_
           /\ reader.current_entry_data_consumed_ =
                 last.before.current_entry_data_consumed_
           /\ reader.current_entry_data_remaining_ =
                 last.before.current_entry_data_remaining_


\* ------------------------------------------------------------------------
\* Extension records and the pending context
\* ------------------------------------------------------------------------
\* the pending extension context of a reader is empty
ContextEmpty(st) ==
    /\ st.pending_gnu_extensions_ = NoGnuExtensions
    /\ DOMAIN st.pending_pax_headers_ = {}
    /\ ~st.pending_sparse_info_.present
    /\ ~st.needs_sparse_1_0_processing_

\* two PAX maps hold the same keys and values
SameMap(a, b) ==
    /\ DOMAIN a = DOMAIN b
    /\ \A k \in DOMAIN a : a[k] = b[k]

\* the pending context of two reader states is the same
SameContext(a, b) ==
    /\ a.pending_gnu_extensions_ = b.pending_gnu_extensions_
    /\ SameMap(a.pending_pax_headers_, b.pending_pax_headers_)
    /\ a.pending_sparse_info_ = b.pending_sparse_info_
    /\ a.needs_sparse_1_0_processing_ = b.needs_sparse_1_0_processing_

\* an advance has just emitted an entry
Emitted == last.op \in Advances /\ last.kind = "entry"

\* type flags of the extension records processed by the emitting call
FrameTypes == [i \in 1..Len(last.g.frames) |-> last.g.frames[i].type]

\* the entry the header record at e.header_pos describes by itself
OwnHeader(e) == parse_header(WindowAt(e.header_pos)).meta

\* the i-th entry was emitted for a header that directly follows the
\* previous member (or opens the archive): no extension record lies between
Unextended(i) ==
    yielded[i].header_pos = IF i = 1 THEN 0 ELSE yielded[i - 1].stored_end

\* C11: immediately after an entry is emitted the pending extension context
\* (long name, long link, PAX keys, deferred sparse descriptor, sparse-1.0
\* obligation) is empty, whatever the type of the entry; so an entry whose
\* header no extension record precedes carries exactly what its own header
\* holds, however many extension records came before earlier entries.
C11_ContextCleared ==
    /\ (last.op \in Advances /\ last.kind = "entry") => ContextEmpty(reader)
    /\ \A i \in 1..Len(yielded) :
          Unextended(i) =>
             /\ yielded[i].path = OwnHeader(yielded[i]).path
             /\ yielded[i].type = OwnHeader(yielded[i]).type
             /\ yielded[i].link_target = OwnHeader(yielded[i]).link_target
             /\ yielded[i].sparse_info = OwnHeader(yielded[i]).sparse_info
             /\ yielded[i].access_acl = <<>>
             /\ yielded[i].default_acl = <<>>
             /\ ~yielded[i].sparse_info.present
                   => yielded[i].size = OwnHeader(yielded[i]).size

\* an entry renamed by an extension record was emitted, and the next entry,
\* whose header directly follows it, has just been emitted
C11_Witness ==
    /\ Len(yielded) = 2
    /\ last.op \in Advances /\ last.kind = "entry"
    /\ ~Unextended(1)
    /\ yielded[1].path # OwnHeader(yielded[1]).path
    /\ Unextended(2)


\* C12: at emission the path is the PAX path when one is pending, else the
\* GNU long name when one is pending, else the ustar name: PAX path wins
\* over a GNU L record in either order of the two records, and over the
\* ustar name.
C12_Precedence ==
    Emitted =>
       LET c == last.g.pending
       IN  /\ HasKey(c.pax, "path") => last.entry.path = c.pax["path"]
           /\ (~HasKey(c.pax, "path") /\ c.gnu.longname # "")
                 => last.entry.path = c.gnu.longname
           /\ (~HasKey(c.pax, "path") /\ c.gnu.longname = "")
                 => last.entry.path = OwnHeader(last.entry).path

\* an entry was emitted for a PAX header with a path followed by an L record
\* with a name, followed by the real header
C12_Witness ==
    /\ Emitted
    /\ FrameTypes = <<"x", "L">>
    /\ HasKey(last.g.pending.pax, "path")
    /\ last.g.pending.gnu.longname = "long"
    /\ last.entry.path = "p"


\* the extension record processed last before the real header
LastFrame == last.g.frames[Len(last.g.frames)]

\* an entry was emitted for a real header that an L record directly precedes
AfterLongName == Emitted /\ last.g.frames # <<>> /\ LastFrame.type = "L"

\* the payload of that L record with its trailing NULs removed
LongNamePayload == LastFrame.after.pending_gnu_extensions_.longname

ExtensionTypes == {"L", "K", "S", "V", "M", "x", "g"}

\* C13 as stated: when an L record precedes a real header, the path of the
\* entry emitted for the pair is the L payload with trailing NULs removed,
\* whatever the ustar name field holds.
C13_LongNameAsStated ==
    AfterLongName => last.entry.path = LongNamePayload

\* C13: when an L record directly precedes a real header, one entry is
\* emitted for the pair (the L record itself is never an entry); with no PAX
\* path pending its path is the L payload with trailing NULs removed when
\* that is not empty, whatever the ustar name field holds, and the ustar
\* name when the payload is empty or all NULs.
C13_LongName ==
    /\ \A i \in 1..Len(yielded) : yielded[i].type \notin ExtensionTypes
    /\ AfterLongName =>
          /\ last.entry.header_pos =
                LastFrame.at + BLOCK_SIZE + RoundUp(LastFrame.size)
          /\ last.entry.group_start <= LastFrame.at
          /\ ~HasKey(last.g.pending.pax, "path") =>
                last.entry.path = IF LongNamePayload # "" THEN LongNamePayload
                                  ELSE OwnHeader(last.entry).path

\* an L record holding "long" directly precedes the header of a file whose
\* ustar name is "a", and the entry was emitted with the path "long"
C13_Witness ==
    /\ AfterLongName
    /\ FrameTypes = <<"L">>
    /\ LongNamePayload = "long"
    /\ OwnHeader(last.entry).path = "a"
    /\ last.entry.path = "long"


\* the character sequence is a decimal number from its first to its last
\* character
EntirelyDecimal(chars) ==
    chars # <<>> /\ \A i \in 1..Len(chars) : chars[i] \in Digits

\* C14: when the pending PAX size is not entirely a decimal number, the
\* entry is emitted with the size of its ustar header, as its reported size
\* and as the payload length left to read and skip.
C14_InvalidPaxSizeIgnored ==
    (/\ Emitted
     /\ HasKey(last.g.pending.pax, "size")
     /\ ~EntirelyDecimal(last.g.pending.pax["size"]))
       => /\ last.entry.size = OwnHeader(last.entry).size
          /\ reader.current_entry_data_remaining_ = OwnHeader(last.entry).size


\* the PAX keys mark the member as GNU sparse format 1.0
IsSparse_1_0(map) ==
    has_gnu_sparse_markers(map) /\ get_gnu_sparse_version(map) = <<1, 0>>

\* the ACL text under the key is pending and does not parse
AclMalformedAt(map, key) == HasKey(map, key) /\ ~parse_acl_text(map[key]).ok

\* the pending GNU.sparse.realsize of a sparse-1.0 member is not a number
RealSizeUnparseable(map) ==
    /\ IsSparse_1_0(map)
    /\ HasKey(map, "GNU.sparse.realsize")
    /\ ~from_chars(map["GNU.sparse.realsize"]).ok

\* the data map of the emitted sparse-1.0 entry did not parse
MapUnparseable(map) ==
    /\ IsSparse_1_0(map)
    /\ ~parse_sparse_1_0_data_map(
            [reader EXCEPT !.position_ = last.entry.payload_start],
            last.entry.sparse_info.real_size).ok

\* a decoding failure other than that of a PAX size was met while the
\* entry was assembled
OtherFailure(map) ==
    \/ AclMalformedAt(map, "SCHILY.acl.access")
    \/ AclMalformedAt(map, "SCHILY.acl.default")
    \/ RealSizeUnparseable(map)
    \/ MapUnparseable(map)

\* the call decoded a real (non-extension) header
RealHeaderDecoded ==
    /\ last.op \in Advances
    /\ last.g.first = "nonzero"
    /\ parse_header(WindowAt(last.g.header_pos)).ok
    /\ parse_header(WindowAt(last.g.header_pos)).meta.type \notin ExtensionTypes

\* C15 as stated: a malformed ACL text, an unparseable GNU.sparse.realsize
\* or a sparse-1.0 data map that does not parse makes the advance report an
\* error: no entry is yielded when one of them was met.
C15_OnlySizeIgnoredAsStated ==
    Emitted => ~OtherFailure(last.g.pending.pax)

\* C15: once a real header is decoded the advance always yields an entry;
\* besides an unparseable PAX size the core silently ignores a malformed ACL
\* text (that ACL list stays empty), an unparseable GNU.sparse.realsize (the
\* real size is the size decoded so far) and a sparse-1.0 data map that does
\* not parse (the entry keeps an empty segment map).
C15_IgnoredFailures ==
    /\ RealHeaderDecoded => last.kind = "entry"
    /\ Emitted =>
          LET map == last.g.pending.pax
          IN  /\ AclMalformedAt(map, "SCHILY.acl.access")
                    => last.entry.access_acl = <<>>
              /\ AclMalformedAt(map, "SCHILY.acl.default")
                    => last.entry.default_acl = <<>>
              /\ RealSizeUnparseable(map)
                    => /\ last.entry.sparse_info.present
                       /\ last.entry.sparse_info.real_size =
                             IF HasKey(map, "size") /\ from_chars(map["size"]).ok
                             THEN from_chars(map["size"]).value
                             ELSE OwnHeader(last.entry).size
              /\ MapUnparseable(map)
                    => /\ last.entry.sparse_info.present
                       /\ last.entry.sparse_info.segments = <<>>

\* an entry was emitted although the pending ACL text was malformed
C15_Witness ==
    /\ Emitted
    /\ AclMalformedAt(last.g.pending.pax, "SCHILY.acl.access")
    /\ last.entry.access_acl = <<>>


\* the payload and padding of the extension record of frame f lie within
\* the stream
PayloadPresent(f) == f.at + BLOCK_SIZE + RoundUp(f.size) <= data_size

\* processing the record of frame f moved the reader past the payload and
\* its padding and changed nothing else
OnlySkipped(f) ==
    /\ f.ok
    /\ f.before.position_ = f.at + BLOCK_SIZE
    /\ f.after.position_ = f.at + BLOCK_SIZE + RoundUp(f.size)
    /\ SameContext(f.before, f.after)
    /\ f.after.current_entry_ = f.before.current_entry_
    /\ f.after.current_entry_data_remaining_ = f.before.current_entry_data_remaining_
    /\ f.after.current_entry_data_consumed_ = f.before.current_entry_data_consumed_
    /\ f.after.finished_ = f.before.finished_

\* C16: a V or M record is never yielded as an entry and does not fail the
\* advance; the reader skips exactly its payload and padding, and the
\* pending extension context after the record is the one before it.
C16_VolumeRecordsSkipped ==
    /\ \A i \in 1..Len(yielded) : yielded[i].type \notin {"V", "M"}
    /\ last.op \in Advances =>
          \A i \in 1..Len(last.g.frames) :
             (last.g.frames[i].type \in {"V", "M"} /\ PayloadPresent(last.g.frames[i]))
                => OnlySkipped(last.g.frames[i])

\* an L record, then an M record with a 600-byte payload, then a real
\* header: the entry was emitted under the long name
C16_Witness ==
    /\ Emitted
    /\ FrameTypes = <<"L", "M">>
    /\ last.g.frames[2].size = 600
    /\ last.g.frames[2].before.pending_gnu_extensions_.longname = "long"
    /\ last.entry.path = "long"

\* C17: a global PAX header changes nothing but the position of the reader,
\* which moves past its payload and padding: the pending per-entry context
\* and the rest of the reader are what they were before the record, so the
\* entries that follow are those of the archive without the record.
C17_GlobalHeaderInert ==
    /\ \A i \in 1..Len(yielded) : yielded[i].type # "g"
    /\ last.op \in Advances =>
          \A i \in 1..Len(last.g.frames) :
             (last.g.frames[i].type = "g" /\ PayloadPresent(last.g.frames[i]))
                => OnlySkipped(last.g.frames[i])

\* a global header carrying a path lies between an L record and the real
\* header: the entry was emitted under the long name, not under the path of
\* the global header
C17_Witness ==
    /\ Emitted
    /\ FrameTypes = <<"L", "g">>
    /\ last.g.frames[2].before.pending_gnu_extensions_.longname = "long"
    /\ last.entry.path = "long"


\* ------------------------------------------------------------------------
\* Error kinds and padding
\* ------------------------------------------------------------------------
\* C19: no call of next_entry, of the iterator advance or of read_data
\* returns an error of kind end_of_archive: an exhausted stream at a header
\* position ends the sequence without error, and an exhausted stream after a
\* zero record or inside the payload of an extension record is reported as
\* an error of another kind.
C19_NoEndOfArchiveError ==
    /\ last.kind = "error" => last.code # "end_of_archive"
    /\ (last.op \in Advances /\ ~last.before.finished_
           /\ last.g.first = "exhausted") => last.kind = "none"
    /\ (last.op \in Advances /\ last.g.second = "exhausted")
          => (last.kind = "error" /\ last.code = "corrupt_archive")
    /\ last.op \in Advances =>
          \A i \in 1..Len(last.g.frames) :
             ~last.g.frames[i].ok =>
                (last.kind = "error" /\ last.code # "end_of_archive")

\* the iterator advanced past an entry, read a zero record and found the
\* stream exhausted behind it: the advance reported corrupt_archive
C19_Witness ==
    /\ last.op = "advance"
    /\ Len(yielded) >= 1
    /\ last.g.second = "exhausted"
    /\ last.kind = "error"
    /\ last.code = "corrupt_archive"

\* number of payload bytes stored in the archive for entry e
StoredSize(e) ==
    IF e.sparse_info.present THEN total_data_size(e.sparse_info.segments)
    ELSE e.size

\* C20: an advance past an entry whose payload of s bytes is complete leaves
\* the payload and then skips exactly (512 - (s mod 512)) mod 512 bytes of
\* padding before it reads the next header.
C20_PaddingSkipped ==
    (/\ last.op \in Advances /\ last.g.skipped
     /\ last.g.prev.present /\ is_regular_file(last.g.prev)
     /\ last.g.prev.stored_end <= data_size)
       => last.g.skip_end - (last.g.prev.payload_start + StoredSize(last.g.prev))
             = Padding(StoredSize(last.g.prev))


\* ------------------------------------------------------------------------
\* Two readers
\* ------------------------------------------------------------------------
\* the slice still shows the bytes it showed when it was returned: its
\* storage was not released, and the buffer still starts with the bytes
\* copied from the same stream position
Intact(slice, buffer) ==
    /\ ~slice.dangling
    /\ buffer.from = slice.from
    /\ buffer.count >= slice.n

\* C18: with two readers over two streams, a data slice returned to the
\* caller of one reader keeps its contents until that same reader advances
\* or reads again, whatever the other reader does in between.
C18_SlicesStayValid ==
    /\ held.own.present => Intact(held.own, reader.buffer)
    /\ held.peer.present => Intact(held.peer, peer.reader.buffer)


\* ------------------------------------------------------------------------
\* Header records
\* ------------------------------------------------------------------------
\* an advance of a reader that was not finished read a header record
HeaderRead ==
    last.op \in Advances /\ ~last.before.finished_ /\ last.g.reads >= 1

\* bytes the stream produced for the record read at position p
Produced(p) == StreamRead(p, BLOCK_SIZE).count

\* the stream reported exhaustion after the record read at position p
Exhausted(p) == StreamAtEnd(StreamRead(p, BLOCK_SIZE).position_)

\* C21: a header record read that produces fewer than 512 bytes ends the
\* sequence silently exactly when it produced no byte and the stream reports
\* exhaustion; every other short read, of a header record or of the record
\* after a zero record, fails the advance with corrupt_archive.
C21_ShortRead ==
    /\ (HeaderRead /\ Produced(last.g.header_pos) < BLOCK_SIZE) =>
          IF Produced(last.g.header_pos) = 0 /\ Exhausted(last.g.header_pos)
          THEN last.kind = "none"
          ELSE last.kind = "error" /\ last.code = "corrupt_archive"
    /\ (HeaderRead /\ last.g.second # "none"
           /\ Produced(last.g.second_pos) < BLOCK_SIZE) =>
          (last.kind = "error" /\ last.code = "corrupt_archive")

\* a header record read produced no byte although the stream did not report
\* exhaustion, and the advance failed with corrupt_archive
C21_Witness ==
    /\ HeaderRead
    /\ Produced(last.g.header_pos) = 0
    /\ ~Exhausted(last.g.header_pos)
    /\ last.kind = "error" /\ last.code = "corrupt_archive"

\* the header record the most recent call parsed last
ParsedHeader == WindowAt(last.g.header_pos)

\* the most recent call decoded a header record (with or without success)
HeaderParsed == HeaderRead /\ last.g.parsed # "none"

\* the stored checksum of header h is octal and equals the sum of the 512
\* octets with the checksum field counted as eight spaces (8 * 32)
ChecksumMatches(h) ==
    /\ parse_octal(h.checksum).ok
    /\ parse_octal(h.checksum).value = U64(h.octets + 8 * 32)

\* header h reaches the checksum comparison: it has a known magic and
\* version, and its checksum field is octal
ChecksumCompared(h) ==
    /\ h.kind = "hdr"
    /\ extract_string(h.magic) \in {<<"u", "s", "t", "a", "r">>,
                                    <<"u", "s", "t", "a", "r", " ">>}
    /\ extract_string(h.version) \in {<<"0", "0">>, <<" ">>}
    /\ parse_octal(h.checksum).ok

\* C22: every header the decoder accepts (the header of a yielded entry, of
\* an extension record it processed, or the last one it decoded) stores, in
\* octal, the sum of its 512 octets with the checksum field counted as eight
\* spaces; a header with a known magic and version whose stored checksum
\* differs from that sum makes the advance fail with corrupt_archive, and no
\* entry is yielded for it.
C22_Checksum ==
    /\ \A i \in 1..Len(yielded) : ChecksumMatches(WindowAt(yielded[i].header_pos))
    /\ last.op \in Advances =>
          \A i \in 1..Len(last.g.frames) :
             ChecksumMatches(WindowAt(last.g.frames[i].at))
    /\ (HeaderParsed /\ last.g.parsed = "ok") => ChecksumMatches(ParsedHeader)
    /\ (HeaderParsed /\ ChecksumCompared(ParsedHeader)
           /\ ~ChecksumMatches(ParsedHeader)) =>
          /\ last.kind = "error" /\ last.code = "corrupt_archive"
          /\ ~last.entry.present

\* an advance decoded an extension record and then a header whose stored
\* checksum is the sum with the field counted as zero bytes
C22_Witness ==
    /\ HeaderParsed /\ last.g.frames # <<>>
    /\ ChecksumCompared(ParsedHeader)
    /\ parse_octal(ParsedHeader.checksum).value = U64(ParsedHeader.octets)
    /\ last.kind = "error" /\ last.code = "corrupt_archive"

\* header h has a magic the decoder knows
MagicKnown(h) ==
    /\ h.kind = "hdr"
    /\ extract_string(h.magic) \in {<<"u", "s", "t", "a", "r">>,
                                    <<"u", "s", "t", "a", "r", " ">>}

\* C23: a header with a known magic, a matching checksum, a name and a known
\* type flag is accepted exactly when its version field is "00", a single
\* space, or empty.
C23_VersionAccepted ==
    (/\ HeaderParsed
     /\ MagicKnown(ParsedHeader) /\ ChecksumMatches(ParsedHeader)
     /\ ParsedHeader.name # "" /\ ParsedHeader.typeflag \in KnownTypes)
       => (last.g.parsed = "ok"
             <=> extract_string(ParsedHeader.version)
                    \in {<<"0", "0">>, <<" ">>, <<>>})

\* ------------------------------------------------------------------------
\* Entries
\* ------------------------------------------------------------------------

\* the most recent call was a read_data on an entry that is not a regular
\* file
ReadOfNonRegular == last.op = "read_data" /\ ~is_regular_file(last.entry)

\* C24: read_data on an entry that is not a regular file (copy_data_to is
\* read_data with offset 0 and the default length) fails with
\* invalid_operation, delivers no bytes and leaves the reader and its stream
\* position as they were.
C24_NonRegularRead ==
    ReadOfNonRegular =>
        /\ last.kind = "error" /\ last.code = "invalid_operation"
        /\ last.chunks = <<>>
        /\ reader = last.before

\* copy_data_to on the symbolic link the reader stands on, whose size a PAX
\* record set to 12, failed
C24_Witness ==
    /\ ReadOfNonRegular
    /\ last.entry.type = "2" /\ last.entry.size > 0
    /\ reader.current_entry_.present /\ reader.current_entry_.id = last.entry.id
    /\ last.offset = 0 /\ last.length = SIZE_MAX
    /\ last.kind = "error"

LinkTypes == {"1", "2"}

\* C25: every yielded entry has a link target exactly when it is a hard link
\* or a symbolic link, whatever records preceded its header.
C25_LinkTargetIffLink ==
    \A i \in 1..Len(yielded) :
        (yielded[i].link_target # "") <=> (yielded[i].type \in LinkTypes)

\* the segments are sorted by offset and do not overlap, and none ends after
\* real_size
RECURSIVE SegmentsOrdered(_)
SegmentsOrdered(segments) ==
    \/ Len(segments) <= 1
    \/ /\ segments[2].offset >= segments[1].offset + segments[1].size
       /\ SegmentsOrdered(Tail(segments))

DescriptorInvariant(info) ==
    /\ SegmentsOrdered(info.segments)
    /\ \A k \in 1..Len(info.segments) :
          info.segments[k].offset + info.segments[k].size <= info.real_size

\* C26: the sparse descriptor of every yielded entry has its segments sorted
\* by offset and non-overlapping, each ending at or before real_size.
C26_DescriptorInvariant ==
    \A i \in 1..Len(yielded) :
        yielded[i].sparse_info.present => DescriptorInvariant(yielded[i].sparse_info)

\* the extended-sparse records that start at position p: their number and
\* their segments; a record is followed by another while its flag is set
RECURSIVE ContinuationRecords(_)
ContinuationRecords(p) ==
    IF WindowAt(p).isextended THEN 1 + ContinuationRecords(p + BLOCK_SIZE) ELSE 1

RECURSIVE ContinuationSegments(_)
ContinuationSegments(p) ==
    OverlaySegments(WindowAt(p).sp)
       \o (IF WindowAt(p).isextended
           THEN ContinuationSegments(p + BLOCK_SIZE) ELSE <<>>)

\* the header of entry e is an old-format sparse header whose isextended
\* flag is '1'
ExtendedSparseHeader(e) ==
    /\ WindowAt(e.header_pos).kind = "hdr"
    /\ WindowAt(e.header_pos).typeflag \in {"0", "S"}
    /\ OverlaySegments(WindowAt(e.header_pos).sp) # <<>>
    /\ WindowAt(e.header_pos).isextended

\* C30: an entry whose old-format sparse header has the isextended flag set
\* carries the segments of the header followed by those of the
\* extended-sparse records, and its payload starts after the last such
\* record.
C30_ExtendedSparseConsumed ==
    \A i \in 1..Len(yielded) :
        ExtendedSparseHeader(yielded[i]) =>
            /\ yielded[i].sparse_info.present
            /\ yielded[i].sparse_info.segments =
                  OverlaySegments(WindowAt(yielded[i].header_pos).sp)
                     \o ContinuationSegments(yielded[i].header_pos + BLOCK_SIZE)
            /\ yielded[i].payload_start =
                  yielded[i].header_pos + BLOCK_SIZE
                     + BLOCK_SIZE * ContinuationRecords(yielded[i].header_pos + BLOCK_SIZE)

\* the perm part is three characters: r or -, w or -, x or -
PermWellFormed(perm) ==
    /\ Len(perm) = 3
    /\ perm[1] \in {"r", "-"}
    /\ perm[2] \in {"w", "-"}
    /\ perm[3] \in {"x", "-"}

\* every entry of the ACL text has three parts and a well-formed perm part
PermsWellFormed(acl_text) ==
    \A k \in 1..Len(acl_text) :
        acl_text[k] # <<>> =>
            Len(acl_text[k]) >= 3 /\ PermWellFormed(acl_text[k][3])

\* an entry was emitted under a pending access ACL text
AccessAclPending == Emitted /\ HasKey(last.g.pending.pax, "SCHILY.acl.access")

\* C27: an ACL text is decoded (and its entries reach the emitted entry)
\* only if the perm part of each of its entries is exactly three characters,
\* the first r or -, the second w or -, the third x or -.
C27_PermCharacters ==
    AccessAclPending =>
        /\ parse_acl_text(last.g.pending.pax["SCHILY.acl.access"]).ok
              => PermsWellFormed(last.g.pending.pax["SCHILY.acl.access"])
        /\ last.entry.access_acl # <<>>
              => PermsWellFormed(last.g.pending.pax["SCHILY.acl.access"])

\* ------------------------------------------------------------------------
\* Several extension records before one header
\* ------------------------------------------------------------------------

\* the key-values of the PAX extended header recorded in frame f
FrameMap(f) == parse_pax_headers_at(f.before.position_, f.size).map

\* the key-values of the `x` records among the frames, merged in order: a
\* later record overrides an earlier one
RECURSIVE MergedPax(_)
MergedPax(frames) ==
    IF frames = <<>> THEN NoPax
    ELSE LET f == frames[Len(frames)]
             earlier == MergedPax(SubSeq(frames, 1, Len(frames) - 1))
         IN  IF f.type = "x" /\ f.ok THEN FrameMap(f) @@ earlier ELSE earlier

\* number of `x` records among the frames
RECURSIVE CountType(_, _)
CountType(frames, t) ==
    IF frames = <<>> THEN 0
    ELSE (IF Head(frames).type = t THEN 1 ELSE 0) + CountType(Tail(frames), t)

\* C28: when an entry is emitted after two or more PAX extended headers,
\* every key of every one of them is in the context applied to the entry,
\* with the value of the latest record that holds it; a path given by any of
\* them is the path of the entry.
C28_PaxMerged ==
    (Emitted /\ CountType(last.g.frames, "x") >= 2) =>
        /\ \A k \in DOMAIN MergedPax(last.g.frames) :
              /\ HasKey(last.g.pending.pax, k)
              /\ last.g.pending.pax[k] = MergedPax(last.g.frames)[k]
        /\ HasKey(MergedPax(last.g.frames), "path")
              => last.entry.path = MergedPax(last.g.frames)["path"]

\* frame j of the most recent advance is an L record that arrived while a
\* long name was pending
ChainedLongName(j) ==
    /\ last.g.frames[j].type = "L"
    /\ last.g.frames[j].before.pending_gnu_extensions_.longname # ""

\* C29: an L record that arrives while a long name is pending ends the
\* advance with an error, and the pending long name stays as it was.
C29_ChainingRejected ==
    last.op \in Advances =>
        \A j \in 1..Len(last.g.frames) :
            ChainedLongName(j) =>
                /\ j = Len(last.g.frames)
                /\ ~last.g.frames[j].ok
                /\ last.kind = "error"
                /\ reader.pending_gnu_extensions_.longname =
                      last.g.frames[j].before.pending_gnu_extensions_.longname

\* ------------------------------------------------------------------------
\* PAX sparse formats
\* ------------------------------------------------------------------------

\* number of characters of the decimal text of n
RECURSIVE DecimalLength(_)
DecimalLength(n) == IF n < 10 THEN 1 ELSE 1 + DecimalLength(n \div 10)

\* number of bytes of a sparse-1.0 map: each number and its newline
RECURSIVE MapLength(_)
MapLength(nums) ==
    IF nums = <<>> THEN 0
    ELSE DecimalLength(Head(nums)) + 1 + MapLength(Tail(nums))

\* entry e is a sparse-1.0 entry: its descriptor was read from the map at the
\* start of its payload
Sparse_1_0_Entry(e) ==
    /\ e.sparse_info.present
    /\ WindowAt(e.payload_start).ctype = "map"
    /\ e.sparse_info.segments # <<>>

\* the byte a sparse-1.0 entry holds at logical offset k: the stored byte of
\* the covering segment, which lies after the map, -1 (zero) in a hole
LogicalByte_1_0(e, k) ==
    IF LogicalByte(e, k) = -1 THEN -1
    ELSE LogicalByte(e, k) + MapLength(WindowAt(e.payload_start).nums)

\* C31: the first read_data(0, n) with n >= real_size on a sparse-1.0 entry
\* whose stored extent is complete returns, at every logical offset inside a
\* segment, the byte stored for it after the map in the payload (the first
\* segment starts right after the map, inside the first record), and zero in
\* the holes.
C31_MapPortionOnly ==
    (ReadOfCurrent /\ Sparse_1_0_Entry(last.entry) /\ Complete(last.entry)
        /\ last.offset = 0 /\ last.length >= last.entry.sparse_info.real_size
        /\ last.before.current_entry_data_consumed_ = 0)
        => /\ last.kind = "data"
           /\ \A k \in 0..(last.entry.sparse_info.real_size - 1) :
                  ByteOf(last.chunks, k) = LogicalByte_1_0(last.entry, k)

\* an entry was emitted under a pending PAX map that marks sparse format 1.0
EmittedSparse_1_0 == Emitted /\ IsSparse_1_0(last.g.pending.pax)

\* C33: an entry emitted under a sparse-1.0 PAX map that holds
\* GNU.sparse.name (and no path) has that value as its path.
C33_SparseNameIsPath ==
    (EmittedSparse_1_0 /\ HasKey(last.g.pending.pax, "GNU.sparse.name")
        /\ ~HasKey(last.g.pending.pax, "path"))
        => last.entry.path = last.g.pending.pax["GNU.sparse.name"]

\* the pending PAX map is of sparse format 0.1: a map and a real size in the
\* PAX record, no version keys
IsSparse_0_1(map) ==
    /\ HasKey(map, "GNU.sparse.map") /\ HasKey(map, "GNU.sparse.realsize")
    /\ ~HasKey(map, "GNU.sparse.major") /\ ~HasKey(map, "GNU.sparse.minor")

\* the segments written as the comma-separated decimal numbers `parts`
RECURSIVE SegmentsOfText(_)
SegmentsOfText(parts) ==
    IF Len(parts) < 2 THEN <<>>
    ELSE <<Seg(from_chars(parts[1]).value, from_chars(parts[2]).value)>>
            \o SegmentsOfText(SubSeq(parts, 3, Len(parts)))

\* C34: an entry emitted under a sparse-0.1 PAX map carries a sparse
\* descriptor with the segments of GNU.sparse.map and the real size of
\* GNU.sparse.realsize, and its payload starts right after its header.
C34_SparseMapInPax ==
    (Emitted /\ IsSparse_0_1(last.g.pending.pax) /\ is_regular_file(last.entry))
        => /\ last.entry.sparse_info.present
           /\ last.entry.sparse_info.segments =
                 SegmentsOfText(last.g.pending.pax["GNU.sparse.map"])
           /\ last.entry.sparse_info.real_size =
                 from_chars(last.g.pending.pax["GNU.sparse.realsize"]).value
           /\ reader.position_ = last.entry.header_pos + BLOCK_SIZE

\* the header of entry e has the POSIX magic: "ustar" followed by NUL
PosixHeader(e) == WindowAt(e.header_pos).magic = <<"u", "s", "t", "a", "r", "NUL">>

\* C32: an entry whose header has the POSIX magic and no extension record
\* before it has no sparse descriptor and the size of its size field,
\* whatever its prefix region holds.
C32_OverlayOnlyForGnu ==
    \A i \in 1..Len(yielded) :
        (PosixHeader(yielded[i]) /\ Unextended(i))
            => /\ ~yielded[i].sparse_info.present
               /\ yielded[i].size = WindowAt(yielded[i].header_pos).size

\* ------------------------------------------------------------------------
\* Reads of sparse entries
\* ------------------------------------------------------------------------
\* number of bytes of a read result that come from the stream
RECURSIVE SegmentBytes(_)
SegmentBytes(chunks) ==
    IF chunks = <<>> THEN 0
    ELSE (IF Head(chunks).zero THEN 0 ELSE Head(chunks).n)
         + SegmentBytes(Tail(chunks))

SparseRead == last.op = "read_data" /\ last.entry.sparse_info.present

\* C35: a read of a sparse entry takes from the stream exactly as many
\* bytes as it returns from segments; zeros returned for holes take none.
C35_PhysicalEqualsSegment ==
    (SparseRead /\ Returned)
        => reader.position_ - last.before.position_ = SegmentBytes(last.chunks)

\* ------------------------------------------------------------------------
\* Octal fields
\* ------------------------------------------------------------------------
RECURSIVE SkipBlanks(_)
SkipBlanks(field) ==
    IF field # <<>> /\ Head(field) \in {"NUL", " "} THEN SkipBlanks(Tail(field))
    ELSE field

RECURSIVE UpToBlank(_)
UpToBlank(field) ==
    IF field = <<>> \/ Head(field) \in {"NUL", " "} THEN <<>>
    ELSE <<Head(field)>> \o UpToBlank(Tail(field))

RECURSIVE SkipZeros(_)
SkipZeros(digits) ==
    IF digits # <<>> /\ Head(digits) = "0" THEN SkipZeros(Tail(digits))
    ELSE digits

\* the digits of the number written in the field, without leading zeros
Numeral(field) == SkipZeros(UpToBlank(SkipBlanks(field)))

\* the field holds an octal number greater than 2^63 (2^63 is written as 1
\* followed by 21 zeros)
Beyond2_63(field) ==
    /\ \A i \in 1..Len(Numeral(field)) : Numeral(field)[i] \in OctalDigits
    /\ \/ Len(Numeral(field)) > 22
       \/ Len(Numeral(field)) = 22 /\ Numeral(field) # <<"1">> \o Rep("0", 21)

\* C36: decoding an octal field whose value is beyond 2^63 fails with an
\* error: no value is produced for it.
C36_OverflowRejected ==
    \A i \in 1..Len(ret) : Beyond2_63(arg[1]) => ~ret[i].ok

\* C37: a read_data call on a sparse entry ends: it returns a slice (short
\* when the stream gives no more bytes inside a segment) or an error.
C37_SparseReadTerminates == SparseRead => Returned

\* ------------------------------------------------------------------------
\* Errors of next_entry
\* ------------------------------------------------------------------------
\* the most recent call is a next_entry call that returned an error
ErrorReturned == last.op \in Advances /\ last.kind = "error"

\* C38: when a next_entry call has returned an error, the call made next
\* on the reader yields no entry: the reader does not go on with the
\* records that follow the bad one.
C38_NoResumeAfterError ==
    [][ErrorReturned => yielded' = yielded]_vars

\* ------------------------------------------------------------------------
\* Payload of sparse entries
\* ------------------------------------------------------------------------
\* C39: an advance past a sparse entry whose payload is complete consumes,
\* from the start of the payload to the next header, the size of the header's
\* size field rounded up to a multiple of 512, whatever the real size is.
C39_SparsePayloadExtent ==
    (/\ last.op \in Advances /\ last.g.skipped
     /\ last.g.prev.present /\ last.g.prev.sparse_info.present
     /\ Complete(last.g.prev))
       => last.g.skip_end - last.g.prev.payload_start
             = WindowAt(last.g.prev.header_pos).size
                 + Padding(WindowAt(last.g.prev.header_pos).size)

\* ------------------------------------------------------------------------
\* PAX records
\* ------------------------------------------------------------------------
\* the first record of the buffer declares a length that reaches past the
\* end of the buffer
DeclaresBeyond(data) ==
    /\ from_chars(data).ok
    /\ Len(LeadingDigits(data)) < Len(data)
    /\ data[Len(LeadingDigits(data)) + 1] = " "
    /\ from_chars(data).value > Len(data)

\* C40: whatever length a record declares, parse_pax_headers looks only at
\* bytes of the buffer, makes keys and values only of bytes of the record
\* being decoded, and answers with an error when the record reaches past
\* the end of the buffer.
C40_PaxInBounds ==
    \A i \in 1..Len(ret) :
        /\ ret[i].read_to <= Len(arg[1])
        /\ \A j \in 1..Len(ret[i].built) :
              /\ ret[i].built[j].record_start <= ret[i].built[j].from
              /\ ret[i].built[j].from <= ret[i].built[j].to
              /\ ret[i].built[j].to <= ret[i].built[j].record_end
        /\ DeclaresBeyond(arg[1]) => ret[i].kind = "error"
====
